---- MODULE Spec2Model ----
(***************************************************************************)
(* Sparse matrices of quocmesh (aol/sparseMatrices.h):                     *)
(*   - TripletMatrix   : the assembly (COO) matrix,                        *)
(*   - CSCMatrix / CSRMatrix : the compressed matrices and their           *)
(*     conversion setFromTriplet,                                          *)
(*   - SparseMatrix    : the explicit-storage matrix with its row objects. *)
(* Vectors of the code are 0-based; the triplet vectors are modelled as    *)
(* sequences (position k of the code is k+1 here), the arrays of the       *)
(* conversion as functions on 0..n-1 so that an access outside the array   *)
(* is visible.  Values are integers: sums and the test "== 0.0" are exact. *)
(***************************************************************************)
EXTENDS Integers, Sequences, FiniteSets, TLC

\* Bounds of the model.
MaxDim == 3
MaxEntries == 3
MaxAbsSum == 3
MaxRows == 2
MaxMats == 2
MaxObjs == 3
MaxViewDim == 2
MaxViewEntries == 2
MaxRimDim == 2
MaxRimVal == 1
MaxTripletIn == 2
MaxCSDim == 2
MaxCSVal == 1

\* Values written by add/set.
Vals == {-1, 1}

\* What a read outside an array may deliver.
JunkVals == {0, 1}

\* Value of "index.size () - 1" for an empty vector: the largest unsigned value.
UIntMax == 2147483647

VARIABLES triplet, cs, lastOp, ub, mats, freeCount, nextId, view, rim, res

vars == <<triplet, cs, lastOp, ub, mats, freeCount, nextId, view, rim, res>>

asmVars == <<triplet, cs, lastOp>>
expVars == <<mats, freeCount, nextId>>
\* view: the sub-block view; rim: the row-indexed matrix with its row contents;
\* res: what the last call returned or wrote into its output vector.
rimVars == <<view, rim, res>>

(***************************************************************************)
(* Generic helpers                                                         *)
(***************************************************************************)

\* aol::Vector<T> v ( n ): n entries, all zero.
ZeroArr(n) == [i \in 0..(n - 1) |-> 0]

\* v.setAll ( x )
SetAll(a, x) == [i \in DOMAIN a |-> x]

\* v.resize ( n ): old contents kept, new entries zero.
Resize(a, n) == [i \in 0..(n - 1) |-> IF i \in DOMAIN a THEN a[i] ELSE 0]

\* v[i] as an rvalue; outside the array the read delivers junk.
Rd(a, i, junk) == IF i \in DOMAIN a THEN a[i] ELSE junk

\* v[i] = x; outside the array the write hits foreign memory.
Wr(a, i, x) == IF i \in DOMAIN a THEN [a EXCEPT ![i] = x] ELSE a

\* v.erase ( k ) on a sequence, k 0-based.
EraseAt(s, k) == [n \in 1..(Len(s) - 1) |-> IF n <= k THEN s[n] ELSE s[n + 1]]

(***************************************************************************)
(* TripletMatrix                                                           *)
(***************************************************************************)

\* TripletMatrix ( numRows, numCols ): no entries.
TripletMatrix(numRows, numCols) ==
  [numRows |-> numRows, numCols |-> numCols,
   rowIndex |-> <<>>, colIndex |-> <<>>, value |-> <<>>]

Size(T) == Len(T.rowIndex)

RECURSIVE TripletGetFrom(_, _, _, _)
TripletGetFrom(T, row, col, k) ==
  IF k > Size(T) THEN 0
  ELSE (IF T.rowIndex[k] = row /\ T.colIndex[k] = col THEN T.value[k] ELSE 0)
       + TripletGetFrom(T, row, col, k + 1)

\* get ( row, col ): sum of all matching entries.
TripletGet(T, row, col) == TripletGetFrom(T, row, col, 1)

\* add ( i, j, value ): append (release build, no bounds check).
TripletAdd(T, i, j, v) ==
  [T EXCEPT !.rowIndex = Append(@, i), !.colIndex = Append(@, j),
            !.value = Append(@, v)]

\* setEntryToZero ( row, col )
SetEntryToZero(T, row, col) ==
  [T EXCEPT !.value = [k \in 1..Size(T) |->
       IF T.rowIndex[k] = row /\ T.colIndex[k] = col THEN 0 ELSE T.value[k]]]

\* set ( row, col, value )
TripletSet(T, row, col, v) == TripletAdd(SetEntryToZero(T, row, col), row, col, v)

EraseEntry(T, k) ==
  [T EXCEPT !.rowIndex = EraseAt(@, k), !.colIndex = EraseAt(@, k),
            !.value = EraseAt(@, k)]

RECURSIVE RemoveZeroFrom(_, _)
\* the loop of removeZeroEntries from position i (0-based): ++i also after an erase
RemoveZeroFrom(T, i) ==
  IF i >= Size(T) THEN T
  ELSE IF T.value[i + 1] = 0 THEN RemoveZeroFrom(EraseEntry(T, i), i + 1)
       ELSE RemoveZeroFrom(T, i + 1)

RemoveZeroEntries(T) == RemoveZeroFrom(T, 0)

\* RowColIndexSorter: ( a, b ) 0-based positions
RowColLess(T, a, b) ==
  \/ T.rowIndex[a + 1] < T.rowIndex[b + 1]
  \/ T.rowIndex[a + 1] = T.rowIndex[b + 1] /\ T.colIndex[a + 1] < T.colIndex[b + 1]

\* std::sort of the identity permutation: any ordering of the positions in which
\* no element is less than its predecessor (std::sort is not stable).
SortedIndexings(T) ==
  {p \in [0..(Size(T) - 1) -> 0..(Size(T) - 1)] :
     /\ \A a, b \in DOMAIN p : a # b => p[a] # p[b]
     /\ \A a \in DOMAIN p : (a + 1) \in DOMAIN p => ~RowColLess(T, p[a + 1], p[a])}

SamePos(T, a, b) ==
  T.rowIndex[a + 1] = T.rowIndex[b + 1] /\ T.colIndex[a + 1] = T.colIndex[b + 1]

\* "index.size () - 1" in unsigned arithmetic
UnsignedPred(n) == IF n = 0 THEN UIntMax ELSE n - 1

RECURSIVE MergeRunOverwrite(_, _, _, _)
\* MergeRun with "=" written for "+=": the first value of a run is lost
MergeRunOverwrite(T, index, i, j) ==
  IF SamePos(T, index[j], index[i])
  THEN LET T2 == [T EXCEPT !.value[index[i] + 1] = T.value[index[j] + 1],
                           !.value[index[j] + 1] = 0]
       IN IF j + 1 >= Size(T) THEN [T |-> T2, j |-> j + 1]
          ELSE MergeRunOverwrite(T2, index, i, j + 1)
  ELSE [T |-> T, j |-> j]

RECURSIVE MergeRun(_, _, _, _)
\* inner while of sumDuplicates: returns the values and the final j
MergeRun(T, index, i, j) ==
  IF SamePos(T, index[j], index[i])
  THEN LET T2 == [T EXCEPT !.value[index[i] + 1] = @ + T.value[index[j] + 1],
                           !.value[index[j] + 1] = 0]
       IN IF j + 1 >= Size(T) THEN [T |-> T2, j |-> j + 1]
          ELSE MergeRun(T2, index, i, j + 1)
  ELSE [T |-> T, j |-> j]

RECURSIVE MergeFrom(_, _, _)
\* outer while of sumDuplicates
MergeFrom(T, index, i) ==
  IF i < UnsignedPred(Size(T))
  THEN LET r == MergeRun(T, index, i, i + 1)
       IN MergeFrom(r.T, index, i + (r.j - i))
  ELSE T

\* sumDuplicates enters its loop and reads index[1] outside the index vector
SumDuplicatesReadsOutside(T) == 0 < UnsignedPred(Size(T)) /\ 1 >= Size(T)

\* sumDuplicates () for a given outcome of std::sort
SumDuplicatesWith(T, index) == RemoveZeroEntries(MergeFrom(T, index, 0))

RECURSIVE RemoveRowColFrom(_, _, _)
\* the loop of removeRowCol from position k (0-based): ++k also after an erase
RemoveRowColFrom(T, i, k) ==
  IF k >= Size(T) THEN T
  ELSE IF T.rowIndex[k + 1] = i \/ T.colIndex[k + 1] = i
       THEN RemoveRowColFrom(EraseEntry(T, k), i, k + 1)
       ELSE RemoveRowColFrom(
              [T EXCEPT !.rowIndex[k + 1] = IF @ > i THEN @ - 1 ELSE @,
                        !.colIndex[k + 1] = IF @ > i THEN @ - 1 ELSE @], i, k + 1)

RemoveRowCol(T, i) == RemoveRowColFrom(T, i, 0)

(***************************************************************************)
(* TripletMatrixOffset, TripletMatrixOffsetUpperTriangle, checked add      *)
(***************************************************************************)

\* TripletMatrixOffset ( mat, numRows, numCols, rowOffset, colOffset ); kind is
\* "offset" for TripletMatrixOffset, "upper" for TripletMatrixOffsetUpperTriangle.
TripletMatrixOffset(kind, numRows, numCols, rowOffset, colOffset) ==
  [kind |-> kind, numRows |-> numRows, numCols |-> numCols,
   rowOffset |-> rowOffset, colOffset |-> colOffset]

\* TripletMatrixOffset::set: _mat.set ( row + _rowOffset, col + _colOffset, value )
OffsetSet(V, T, row, col, v) == TripletSet(T, row + V.rowOffset, col + V.colOffset, v)

\* TripletMatrixOffset::add: _mat.add ( row + _rowOffset, col + _colOffset, value )
OffsetAdd(V, T, row, col, v) == TripletAdd(T, row + V.rowOffset, col + V.colOffset, v)

\* TripletMatrixOffsetUpperTriangle::add: only if row <= col
UpperTriangleAdd(V, T, row, col, v) ==
  IF row <= col THEN TripletAdd(T, row + V.rowOffset, col + V.colOffset, v) ELSE T

\* the virtual call view.add ( row, col, v )
ViewAddCall(V, T, row, col, v) ==
  IF V.kind = "upper" THEN UpperTriangleAdd(V, T, row, col, v)
  ELSE OffsetAdd(V, T, row, col, v)

\* the virtual call view.set ( row, col, v ): the upper-triangular class
\* overrides add only, set is TripletMatrixOffset's
ViewSetCall(V, T, row, col, v) == OffsetSet(V, T, row, col, v)

\* eraseValue ( row, col ): every entry at ( row, col ) is erased
EraseValue(T, row, col) ==
  LET left == SelectSeq([k \in 1..Size(T) |-> k],
                        LAMBDA k : ~(T.rowIndex[k] = row /\ T.colIndex[k] = col))
  IN [T EXCEPT !.rowIndex = [n \in 1..Len(left) |-> T.rowIndex[left[n]]],
               !.colIndex = [n \in 1..Len(left) |-> T.colIndex[left[n]]],
               !.value = [n \in 1..Len(left) |-> T.value[left[n]]]]

\* TripletMatrixOffset::setZero: _mat.eraseValue ( i + _rowOffset, j + _colOffset )
\* for every i < numRows, j < numCols of the block, row by row
OffsetSetZero(V, T) ==
  LET after[n \in 0..(V.numRows * V.numCols)] ==
        IF n = 0 THEN T
        ELSE EraseValue(after[n - 1], ((n - 1) \div V.numCols) + V.rowOffset,
                        ((n - 1) % V.numCols) + V.colOffset)
  IN after[V.numRows * V.numCols]

\* TripletMatrixOffset::setRowToZero ( i )
OffsetSetRowToZero(V, T, i) ==
  [T EXCEPT !.value = [k \in 1..Size(T) |->
       IF /\ T.rowIndex[k] = i + V.rowOffset /\ T.rowIndex[k] >= V.rowOffset
          /\ T.rowIndex[k] < V.rowOffset + V.numRows
       THEN 0 ELSE T.value[k]]]

\* TripletMatrixOffset::setColToZero ( j )
OffsetSetColToZero(V, T, j) ==
  [T EXCEPT !.value = [k \in 1..Size(T) |->
       IF /\ T.colIndex[k] = j + V.colOffset /\ T.colIndex[k] >= V.colOffset
          /\ T.colIndex[k] < V.colOffset + V.numCols
       THEN 0 ELSE T.value[k]]]

\* TripletMatrix::add compiled with BOUNDS_CHECK: [T, thrown]
CheckedAdd(T, i, j, v) ==
  IF i > T.numRows THEN [T |-> T, thrown |-> TRUE]
  ELSE IF j > T.numCols THEN [T |-> T, thrown |-> TRUE]
  ELSE [T |-> TripletAdd(T, i, j, v), thrown |-> FALSE]

(***************************************************************************)
(* Row and GenSparseMatrix with the contents of the rows                   *)
(* A row handle is [present, val]: present = FALSE is the NULL handle,     *)
(* val maps every column to the value the row holds there (0: no entry).   *)
(* Vectors are functions on 0..n-1.                                        *)
(***************************************************************************)

RimCols == 0..(MaxRimDim - 1)

\* the NULL handle / new SparseRow<DataType>
NullRow == [present |-> FALSE, val |-> [j \in RimCols |-> 0]]
EmptyRow == [present |-> TRUE, val |-> [j \in RimCols |-> 0]]

VSize(a) == Cardinality(DOMAIN a)

\* Row::get ( I, J )
RowGet(row, J) == row.val[J]

\* Row::set ( I, J, Value )
RowSet(row, J, v) == [row EXCEPT !.val[J] = v]

\* Row::add ( I, J, Value )
RowAdd(row, J, v) == [row EXCEPT !.val[J] = @ + v]

\* Row::setZero ()
RowSetZero(row) == [row EXCEPT !.val = [j \in RimCols |-> 0]]

RECURSIVE RowMultFrom(_, _, _, _)
RowMultFrom(row, Arg, j, junk) ==
  IF j \notin RimCols THEN 0
  ELSE (IF row.val[j] = 0 THEN 0 ELSE row.val[j] * Rd(Arg, j, junk))
       + RowMultFrom(row, Arg, j + 1, junk)

\* Row::mult ( Arg, Row ): the sum of value * Arg[col] over the entries of the row
RowMult(row, Arg, junk) == RowMultFrom(row, Arg, 0, junk)

\* BitMaskFunctorTrue / BitMaskFunctorIdentity / BitMaskFunctorNegate applied to a bit
BitMaskFunctor(f, b) ==
  IF f = "True" THEN TRUE ELSE IF f = "Identity" THEN b ELSE ~b

RECURSIVE RowMultMaskedFrom(_, _, _, _, _, _)
RowMultMaskedFrom(row, Arg, Mask, f, j, junk) ==
  IF j \notin RimCols THEN 0
  ELSE (IF row.val[j] # 0 /\ BitMaskFunctor(f, Rd(Mask, j, junk = 1))
        THEN row.val[j] * Rd(Arg, j, junk) ELSE 0)
       + RowMultMaskedFrom(row, Arg, Mask, f, j + 1, junk)

\* Row::multMaskedFunctorTrue / Identity / Negate ( Arg, Row, Mask ): the sum
\* over the entries whose column passes the functor
RowMultMasked(row, Arg, Mask, f, junk) == RowMultMaskedFrom(row, Arg, Mask, f, 0, junk)

\* SparseMatrix ( Rows, Columns ): every row present and empty, _diagEntry one
RowIndexedMatrix(R, C) ==
  [numRows |-> R, numCols |-> C, rows |-> [k \in 1..R |-> EmptyRow], diagEntry |-> 1]

\* get with an absent row reading zero also on the diagonal
GenGetZeroDiag(M, I, J) ==
  IF M.rows[I + 1].present THEN RowGet(M.rows[I + 1], J) ELSE 0

\* GenSparseMatrix::get ( I, J )
GenGet(M, I, J) ==
  IF M.rows[I + 1].present THEN RowGet(M.rows[I + 1], J)
  ELSE IF I = J THEN M.diagEntry ELSE 0

\* set without the test for the diagonal value: on an absent row only zero is accepted
GenSetZeroOnly(M, I, J, v) ==
  IF M.rows[I + 1].present
  THEN [M |-> [M EXCEPT !.rows[I + 1] = RowSet(@, J, v)], thrown |-> FALSE]
  ELSE IF v = 0 THEN [M |-> M, thrown |-> FALSE]
  ELSE [M |-> M, thrown |-> TRUE]

\* GenSparseMatrix::set ( I, J, Value ): [M, thrown]
GenSet(M, I, J, v) ==
  IF M.rows[I + 1].present
  THEN [M |-> [M EXCEPT !.rows[I + 1] = RowSet(@, J, v)], thrown |-> FALSE]
  ELSE IF (I = J /\ v = M.diagEntry) \/ v = 0 THEN [M |-> M, thrown |-> FALSE]
  ELSE [M |-> M, thrown |-> TRUE]

\* GenSparseMatrix::add ( I, J, Value ): [M, thrown]
GenAdd(M, I, J, v) ==
  IF M.rows[I + 1].present
  THEN [M |-> [M EXCEPT !.rows[I + 1] = RowAdd(@, J, v)], thrown |-> FALSE]
  ELSE IF v = 0 THEN [M |-> M, thrown |-> FALSE]
  ELSE [M |-> M, thrown |-> TRUE]

\* the size test of apply, applyAdd, applyMasked
SizesDiffer(M, Arg, Dest) == M.numRows # VSize(Dest) \/ M.numCols # VSize(Arg)

\* an absent row i reads Arg[i]: outside Arg when i >= Arg.size ()
AbsentRowReadsOutside(M, Arg) ==
  \E i \in 0..(M.numRows - 1) : ~M.rows[i + 1].present /\ i \notin DOMAIN Arg

\* GenSparseMatrix::apply ( Arg, Dest ): [dest, thrown, oob]
GenApply(M, Arg, Dest, junk) ==
  IF SizesDiffer(M, Arg, Dest) THEN [dest |-> Dest, thrown |-> TRUE, oob |-> FALSE]
  ELSE [dest |-> [i \in DOMAIN Dest |->
                    IF M.rows[i + 1].present THEN RowMult(M.rows[i + 1], Arg, junk)
                    ELSE M.diagEntry * Rd(Arg, i, junk)],
        thrown |-> FALSE, oob |-> AbsentRowReadsOutside(M, Arg)]

\* GenSparseMatrix::applyAdd ( Arg, Dest ): [dest, thrown, oob]
GenApplyAdd(M, Arg, Dest, junk) ==
  IF SizesDiffer(M, Arg, Dest) THEN [dest |-> Dest, thrown |-> TRUE, oob |-> FALSE]
  ELSE [dest |-> [i \in DOMAIN Dest |->
                    Dest[i] + (IF M.rows[i + 1].present
                               THEN RowMult(M.rows[i + 1], Arg, junk)
                               ELSE M.diagEntry * Rd(Arg, i, junk))],
        thrown |-> FALSE, oob |-> AbsentRowReadsOutside(M, Arg)]

Modes == {"ALL_WRITE_ALL", "BD_WRITE_INT", "INT_WRITE_ALL", "ALL_WRITE_INT", "INT_WRITE_INT"}

\* the first template argument of the switch of applyMasked: the functor on Mask[i]
ModeRowFunctor(mode) ==
  IF mode \in {"ALL_WRITE_ALL", "INT_WRITE_ALL"} THEN "True" ELSE "Identity"

\* the second template argument of the switch of applyMasked: the row's multMasked
ModeColFunctor(mode) ==
  IF mode \in {"ALL_WRITE_ALL", "ALL_WRITE_INT"} THEN "True"
  ELSE IF mode = "BD_WRITE_INT" THEN "Negate" ELSE "Identity"

\* applyMasked<BitMaskFunctorType, multMasked> ( Arg, Dest, Mask ): the new Dest
ApplyMaskedRows(M, Arg, Dest, Mask, rf, cf, junk) ==
  [i \in DOMAIN Dest |->
     IF BitMaskFunctor(rf, Rd(Mask, i, junk = 1))
     THEN IF M.rows[i + 1].present
          THEN RowMultMasked(M.rows[i + 1], Arg, Mask, cf, junk)
          ELSE M.diagEntry * Rd(Arg, i, junk)
     ELSE Dest[i]]

\* GenSparseMatrix::applyMasked ( Arg, Dest, Mask, applyMode ): [dest, thrown, oob]
ApplyMasked(M, Arg, Dest, Mask, mode, junk) ==
  IF SizesDiffer(M, Arg, Dest) THEN [dest |-> Dest, thrown |-> TRUE, oob |-> FALSE]
  ELSE [dest |-> ApplyMaskedRows(M, Arg, Dest, Mask, ModeRowFunctor(mode),
                                 ModeColFunctor(mode), junk),
        thrown |-> FALSE,
        oob |-> \E i \in 0..(M.numRows - 1) :
                  /\ BitMaskFunctor(ModeRowFunctor(mode), Rd(Mask, i, FALSE))
                  /\ ~M.rows[i + 1].present /\ i \notin DOMAIN Arg]

\* Row::addMultiple ( I, other, factor ): factor times the entries of other are added
RowAddMultiple(row, other, factor) ==
  [row EXCEPT !.val = [j \in RimCols |-> row.val[j] + factor * other.val[j]]]

\* GenSparseMatrix::addMultiple ( Matrix, factor ): an absent row is replaced by
\* newDefaultRow () if Matrix has the row, and rows present in both are added
AddMultiple(M, O, factor) ==
  [M EXCEPT !.rows = [k \in DOMAIN M.rows |->
     LET mine == IF ~M.rows[k].present /\ O.rows[k].present THEN EmptyRow ELSE M.rows[k]
     IN IF mine.present /\ O.rows[k].present
        THEN RowAddMultiple(mine, O.rows[k], factor) ELSE mine]]

\* GenSparseMatrix::deleteRow ( I ) on the contents
DeleteRowContents(M, I) == [M EXCEPT !.rows[I + 1] = NullRow]

\* GenSparseMatrix::setZero (): every present row is cleared
SetZeroContents(M) ==
  [M EXCEPT !.rows = [k \in DOMAIN M.rows |->
                        IF M.rows[k].present THEN RowSetZero(M.rows[k]) ELSE M.rows[k]]]

\* SparseMatrix::resize ( new_rows, new_cols ) on the contents: [M, thrown]
ResizeContents(M, newRows, newCols) ==
  LET rows2 == IF newRows > M.numRows
               THEN [k \in 1..newRows |->
                       IF k <= M.numRows /\ k <= Len(M.rows) THEN M.rows[k]
                       ELSE IF k <= M.numRows THEN NullRow ELSE EmptyRow]
               ELSE IF newRows < M.numRows
               THEN [k \in 1..newRows |-> IF k <= Len(M.rows) THEN M.rows[k] ELSE NullRow]
               ELSE M.rows
  IN IF newCols < M.numCols
     THEN [M |-> [M EXCEPT !.rows = rows2], thrown |-> TRUE]
     ELSE [M |-> [M EXCEPT !.rows = rows2, !.numRows = newRows, !.numCols = newCols],
           thrown |-> FALSE]

RECURSIVE AddEntriesFrom(_, _, _)
\* for i < _value.size (): sparseMatrix.add ( _rowIndex[i], _colIndex[i], _value[i] );
\* the first add that throws ends the loop: [M, thrown]
AddEntriesFrom(r, A, k) ==
  IF k > Size(A) \/ r.thrown THEN r
  ELSE AddEntriesFrom(GenAdd(r.M, A.rowIndex[k], A.colIndex[k], A.value[k]), A, k + 1)

\* TripletMatrix::toSparseMatrix ( sparseMatrix ): [M, thrown]
ToSparseMatrix(A, M) ==
  LET r == ResizeContents(M, A.numRows, A.numCols)
  IN IF r.thrown THEN r
     ELSE AddEntriesFrom([M |-> SetZeroContents(r.M), thrown |-> FALSE], A, 1)

(***************************************************************************)
(* CSMatrix, CSCMatrix, CSRMatrix                                          *)
(***************************************************************************)

\* CSMatrix ( numRows, numCols ): _indPointer ( numRows + 1 ), no entries.
CSMatrix(kind, numRows, numCols) ==
  [kind |-> kind, numRows |-> numRows, numCols |-> numCols,
   index |-> ZeroArr(0), indPointer |-> ZeroArr(numRows + 1), value |-> ZeroArr(0),
   oob |-> FALSE]

\* Sizes and loop bounds of CSCMatrix::setFromTriplet, as written in the code.
\* key/other: the triplet vector that is bucketed first / stored per entry.
CSCShape(T) ==
  [key |-> T.rowIndex, other |-> T.colIndex,
   nT |-> IF T.numRows >= T.numCols THEN T.numRows ELSE T.numCols,
   nPointer |-> T.numRows + 1,        \* rowPointer ( getNumRows () + 1 )
   nPointerLoop |-> T.numCols,        \* for j < getNumCols (): rowPointer[j + 1] = ...
   nDedupLoop |-> T.numRows,          \* for i < getNumRows (): sum up duplicates
   nCount |-> T.numRows,              \* rowCount ( getNumRows () )
   nCountLoop |-> T.numRows,          \* for i < getNumRows (): count per column
   nIndPointer |-> T.numCols + 1,     \* _indPointer.resize ( getNumCols () + 1 )
   nIndPointerLoop |-> T.numCols,     \* for j < getNumCols (): _indPointer[j + 1] = ...
   nFillLoop |-> T.numRows]           \* for i < getNumRows (): fill

\* Sizes and loop bounds of CSRMatrix::setFromTriplet, as written in the code.
CSRShape(T) ==
  [key |-> T.colIndex, other |-> T.rowIndex,
   nT |-> IF T.numRows >= T.numCols THEN T.numRows ELSE T.numCols,
   nPointer |-> T.numCols + 1,        \* colPointer ( getNumCols () + 1 )
   nPointerLoop |-> T.numRows,        \* for i < getNumRows (): colPointer[i + 1] = ...
   nDedupLoop |-> T.numCols,          \* for j < getNumCols (): sum up duplicates
   nCount |-> T.numRows,              \* colCount ( getNumRows () )
   nCountLoop |-> T.numRows,          \* for j < getNumRows (): count per row
   nIndPointer |-> T.numRows + 1,     \* _indPointer.resize ( getNumRows () + 1 )
   nIndPointerLoop |-> T.numCols,     \* for i < getNumCols (): _indPointer[i + 1] = ...
   nFillLoop |-> T.numCols]           \* for j < getNumCols (): fill

RECURSIVE CountPerKey(_, _, _, _)
\* for i < tripletVal.size (): ++( t[key[i]] )
CountPerKey(s, key, i, junk) ==
  IF i >= Len(key) THEN s
  ELSE LET x == key[i + 1]
       IN CountPerKey([s EXCEPT !.t = Wr(@, x, Rd(s.t, x, junk) + 1),
                                !.oob = @ \/ x \notin DOMAIN s.t],
                      key, i + 1, junk)

RECURSIVE SetPointers(_, _, _, _)
\* for j < n: ptr[j + 1] = ptr[j] + t[j]; t[j] = ptr[j]     on q = [ptr, t, oob]
SetPointers(q, j, n, junk) ==
  IF j >= n THEN q
  ELSE LET pj == Rd(q.ptr, j, junk)
           ptr2 == Wr(q.ptr, j + 1, pj + Rd(q.t, j, junk))
       IN SetPointers([ptr |-> ptr2,
                       t |-> Wr(q.t, j, Rd(ptr2, j, junk)),
                       oob |-> \/ q.oob
                               \/ j \notin DOMAIN q.ptr
                               \/ (j + 1) \notin DOMAIN q.ptr
                               \/ j \notin DOMAIN q.t],
                      j + 1, n, junk)

RECURSIVE FillBuckets(_, _, _, _, _, _)
\* for i < tripletVal.size (): k = ( t[key[i]] )++; colIndex[k] = other[i]; val[k] = tripletVal[i]
FillBuckets(s, key, other, tripletVal, i, junk) ==
  IF i >= Len(tripletVal) THEN s
  ELSE LET x == key[i + 1]
           k == Rd(s.t, x, junk)
       IN FillBuckets([s EXCEPT !.t = Wr(@, x, k + 1),
                                !.colIndex = Wr(@, k, other[i + 1]),
                                !.val = Wr(@, k, tripletVal[i + 1]),
                                !.oob = \/ @
                                        \/ x \notin DOMAIN s.t
                                        \/ k \notin DOMAIN s.colIndex
                                        \/ k \notin DOMAIN s.val],
                      key, other, tripletVal, i + 1, junk)

RECURSIVE DedupBucket(_, _, _, _, _, _)
\* for p1 <= p < p2: the "new entry" / "entry already seen" step; returns [s, pd]
DedupBucket(s, p, p1, p2, pd, junk) ==
  IF p >= p2 THEN [s |-> s, pd |-> pd]
  ELSE LET k == Rd(s.colIndex, p, junk)
           pj == Rd(s.t, k, junk)
           bad == p \notin DOMAIN s.colIndex \/ k \notin DOMAIN s.t
       IN IF pj < p1
          THEN DedupBucket([s EXCEPT !.t = Wr(@, k, pd),
                                     !.colIndex = Wr(@, pd, k),
                                     !.val = Wr(@, pd, Rd(s.val, p, junk)),
                                     !.oob = \/ @ \/ bad
                                             \/ pd \notin DOMAIN s.colIndex
                                             \/ pd \notin DOMAIN s.val
                                             \/ p \notin DOMAIN s.val],
                           p + 1, p1, p2, pd + 1, junk)
          ELSE DedupBucket([s EXCEPT !.val = Wr(@, pj, Rd(s.val, pj, junk) + Rd(s.val, p, junk)),
                                     !.oob = \/ @ \/ bad
                                             \/ pj \notin DOMAIN s.val
                                             \/ p \notin DOMAIN s.val],
                           p + 1, p1, p2, pd, junk)

RECURSIVE SumUpDuplicates(_, _, _, _)
\* for i < n: p1 = rowPointer[i]; p2 = rowPointer[i + 1]; ...; rowCount[i] = pd - p1
SumUpDuplicates(s, i, n, junk) ==
  IF i >= n THEN s
  ELSE LET p1 == Rd(s.rowPointer, i, junk)
           p2 == Rd(s.rowPointer, i + 1, junk)
           r == DedupBucket(s, p1, p1, p2, p1, junk)
       IN SumUpDuplicates([r.s EXCEPT !.rowCount = Wr(@, i, r.pd - p1),
                                      !.oob = \/ @
                                              \/ i \notin DOMAIN s.rowPointer
                                              \/ (i + 1) \notin DOMAIN s.rowPointer
                                              \/ i \notin DOMAIN s.rowCount],
                          i + 1, n, junk)

RECURSIVE CountBucket(_, _, _, _)
\* for p < end: ++( t[colIndex[p]] )
CountBucket(s, p, end, junk) ==
  IF p >= end THEN s
  ELSE LET c == Rd(s.colIndex, p, junk)
       IN CountBucket([s EXCEPT !.t = Wr(@, c, Rd(s.t, c, junk) + 1),
                                !.oob = @ \/ p \notin DOMAIN s.colIndex \/ c \notin DOMAIN s.t],
                      p + 1, end, junk)

RECURSIVE CountPerMajor(_, _, _, _)
\* for i < n: for rowPointer[i] <= p < rowPointer[i] + rowCount[i]: ++( t[colIndex[p]] )
CountPerMajor(s, i, n, junk) ==
  IF i >= n THEN s
  ELSE LET p0 == Rd(s.rowPointer, i, junk)
           s2 == CountBucket(s, p0, p0 + Rd(s.rowCount, i, junk), junk)
       IN CountPerMajor([s2 EXCEPT !.oob = \/ @
                                           \/ i \notin DOMAIN s.rowPointer
                                           \/ i \notin DOMAIN s.rowCount],
                        i + 1, n, junk)

RECURSIVE SumArr(_, _)
\* for i < t.size (): numEntries += t[i]
SumArr(a, i) == IF i \notin DOMAIN a THEN 0 ELSE a[i] + SumArr(a, i + 1)

RECURSIVE FillBucket(_, _, _, _, _)
\* for p < end: k = ( t[colIndex[p]] )++; _index[k] = i; _value[k] = val[p]
FillBucket(s, i, p, end, junk) ==
  IF p >= end THEN s
  ELSE LET c == Rd(s.colIndex, p, junk)
           k == Rd(s.t, c, junk)
       IN FillBucket([s EXCEPT !.t = Wr(@, c, k + 1),
                               !.index = Wr(@, k, i),
                               !.value = Wr(@, k, Rd(s.val, p, junk)),
                               !.oob = \/ @
                                       \/ p \notin DOMAIN s.colIndex
                                       \/ c \notin DOMAIN s.t
                                       \/ k \notin DOMAIN s.index
                                       \/ k \notin DOMAIN s.value
                                       \/ p \notin DOMAIN s.val],
                     i, p + 1, end, junk)

RECURSIVE FillMatrix(_, _, _, _)
\* for i < n: for rowPointer[i] <= p < rowPointer[i] + rowCount[i]: ...
FillMatrix(s, i, n, junk) ==
  IF i >= n THEN s
  ELSE LET p0 == Rd(s.rowPointer, i, junk)
           s2 == FillBucket(s, i, p0, p0 + Rd(s.rowCount, i, junk), junk)
       IN FillMatrix([s2 EXCEPT !.oob = \/ @
                                        \/ i \notin DOMAIN s.rowPointer
                                        \/ i \notin DOMAIN s.rowCount],
                     i + 1, n, junk)

\* setFromTriplet on matrix M (freshly constructed or after setZero) for the
\* sizes and loop bounds sh; the local arrays carry CSCMatrix' names.
SetFromTriplet(M, T, sh, junk) ==
  LET s0 == [t |-> ZeroArr(sh.nT), rowPointer |-> ZeroArr(sh.nPointer),
             colIndex |-> ZeroArr(Size(T)), val |-> ZeroArr(Size(T)),
             rowCount |-> ZeroArr(0), index |-> M.index, value |-> M.value,
             oob |-> FALSE]
      s1 == CountPerKey(s0, sh.key, 0, junk)
      q2 == SetPointers([ptr |-> s1.rowPointer, t |-> s1.t, oob |-> s1.oob],
                        0, sh.nPointerLoop, junk)
      s2 == [s1 EXCEPT !.rowPointer = q2.ptr, !.t = q2.t, !.oob = q2.oob]
      s3 == FillBuckets(s2, sh.key, sh.other, T.value, 0, junk)
      s4 == [s3 EXCEPT !.t = SetAll(@, -1), !.rowCount = ZeroArr(sh.nCount)]
      s5 == SumUpDuplicates(s4, 0, sh.nDedupLoop, junk)
      s6 == CountPerMajor([s5 EXCEPT !.t = SetAll(@, 0)], 0, sh.nCountLoop, junk)
      numEntries == SumArr(s6.t, 0)
      s7 == [s6 EXCEPT !.index = Resize(@, numEntries), !.value = Resize(@, numEntries)]
      q8 == SetPointers([ptr |-> Wr(Resize(M.indPointer, sh.nIndPointer), 0, 0),
                         t |-> s7.t, oob |-> s7.oob],
                        0, sh.nIndPointerLoop, junk)
      s9 == FillMatrix([s7 EXCEPT !.t = q8.t, !.oob = q8.oob], 0, sh.nFillLoop, junk)
  IN [M EXCEPT !.index = s9.index, !.indPointer = q8.ptr, !.value = s9.value,
               !.oob = s9.oob]

\* CSCMatrix ( tripletMatrix ) / CSRMatrix ( tripletMatrix )
FromTriplet(kind, T, junk) ==
  SetFromTriplet(CSMatrix(kind, T.numRows, T.numCols), T,
                 IF kind = "CSC" THEN CSCShape(T) ELSE CSRShape(T), junk)

\* major / minor coordinate of ( row, col )
Major(M, row, col) == IF M.kind = "CSC" THEN col ELSE row
Minor(M, row, col) == IF M.kind = "CSC" THEN row ELSE col
MajorDim(M) == IF M.kind = "CSC" THEN M.numCols ELSE M.numRows

RECURSIVE CSScan(_, _, _, _, _)
\* for ( i = from; i < _indPointer[m + 1]; ++i ) if ( _index[i] == minor ) return _value[i]
CSScan(M, i, end, minor, junk) ==
  IF i >= end THEN [v |-> 0, oob |-> FALSE]
  ELSE IF Rd(M.index, i, junk) = minor
       THEN [v |-> Rd(M.value, i, junk),
             oob |-> i \notin DOMAIN M.index \/ i \notin DOMAIN M.value]
       ELSE LET r == CSScan(M, i + 1, end, minor, junk)
            IN [v |-> r.v, oob |-> r.oob \/ i \notin DOMAIN M.index]

\* get ( row, col ) of CSCMatrix / CSRMatrix: [v: the value, oob: a read outside an array]
CSGet(M, row, col, junk) ==
  LET m == Major(M, row, col)
      r == CSScan(M, Rd(M.indPointer, m, junk), Rd(M.indPointer, m + 1, junk),
                  Minor(M, row, col), junk)
  IN [v |-> r.v,
      oob |-> r.oob \/ m \notin DOMAIN M.indPointer \/ (m + 1) \notin DOMAIN M.indPointer]

(***************************************************************************)
(* CSCMatrix / CSRMatrix: set, add, apply, applyAdd                        *)
(***************************************************************************)

RECURSIVE CSFind(_, _, _, _, _)
\* for ( i = from; i < end; ++i ) if ( _index[i] == minor ): the position found, or -1
CSFind(M, i, end, minor, junk) ==
  IF i >= end THEN -1
  ELSE IF Rd(M.index, i, junk) = minor THEN i
  ELSE CSFind(M, i + 1, end, minor, junk)

RECURSIVE CSInsertPos(_, _, _, _, _)
\* while ( pos < end ) { if ( _index[pos] > minor ) break; ++pos; }
CSInsertPos(M, pos, end, minor, junk) ==
  IF pos >= end THEN pos
  ELSE IF Rd(M.index, pos, junk) > minor THEN pos
  ELSE CSInsertPos(M, pos + 1, end, minor, junk)

\* v.insert ( pos, x ): x becomes entry pos, the later entries move up by one
InsertArr(a, pos, x) ==
  IF pos \notin 0..VSize(a) THEN a
  ELSE [k \in 0..VSize(a) |-> IF k < pos THEN a[k] ELSE IF k = pos THEN x ELSE a[k - 1]]

\* the pointers after major index m moved up by one, up to the second-to-last
ShiftPointersButLast(ptr, m) ==
  [c \in DOMAIN ptr |-> IF c >= m + 1 /\ c + 1 \in DOMAIN ptr THEN ptr[c] + 1 ELSE ptr[c]]

\* for ( c = m + 1; c < _indPointer.size (); ++c ) ++( _indPointer[c] )
ShiftPointers(ptr, m) == [c \in DOMAIN ptr |-> IF c >= m + 1 THEN ptr[c] + 1 ELSE ptr[c]]

\* set ( row, col, val ) / add ( row, col, val ) of CSCMatrix and CSRMatrix
CSWrite(M, row, col, val, isAdd, junk) ==
  LET m == Major(M, row, col)
      minor == Minor(M, row, col)
      from == Rd(M.indPointer, m, junk)
      end == Rd(M.indPointer, m + 1, junk)
      f == CSFind(M, from, end, minor, junk)
      badPtr == m \notin DOMAIN M.indPointer \/ (m + 1) \notin DOMAIN M.indPointer
  IN IF f # -1
     THEN [M EXCEPT !.value = Wr(@, f, IF isAdd THEN Rd(M.value, f, junk) + val ELSE val),
                    !.oob = \/ @ \/ badPtr
                            \/ \E i \in from..f : i \notin DOMAIN M.index
                            \/ f \notin DOMAIN M.value]
     ELSE LET pos == CSInsertPos(M, from, end, minor, junk)
          IN [M EXCEPT !.index = InsertArr(@, pos, minor),
                       !.value = InsertArr(@, pos, val),
                       !.indPointer = ShiftPointers(@, m),
                       !.oob = \/ @ \/ badPtr
                               \/ \E i \in from..(end - 1) : i \notin DOMAIN M.index
                               \/ pos \notin 0..VSize(M.index)]

\* set ( row, col, val )
CSSet(M, row, col, val, junk) == CSWrite(M, row, col, val, FALSE, junk)

\* add ( row, col, val )
CSAdd(M, row, col, val, junk) == CSWrite(M, row, col, val, TRUE, junk)

\* setZero (): _index, _indPointer and _value are reallocated with 0 entries
CSSetZero(M) ==
  [M EXCEPT !.index = ZeroArr(0), !.indPointer = ZeroArr(0), !.value = ZeroArr(0)]

RECURSIVE CSApplySlice(_, _, _, _, _, _, _)
\* the inner loop of applyAdd over the positions p < end of major index m, on
\* d = [dest, oob]:  CSC: dest[_index[p]] += _value[p] * arg[m]
\*                   CSR: dest[m] += _value[p] * arg[_index[p]]
CSApplySlice(M, arg, d, m, p, end, junk) ==
  IF p >= end THEN d
  ELSE LET x == Rd(M.index, p, junk)
           v == Rd(M.value, p, junk)
           to == IF M.kind = "CSC" THEN x ELSE m
           at == IF M.kind = "CSC" THEN m ELSE x
       IN CSApplySlice(M, arg,
                       [dest |-> Wr(d.dest, to, Rd(d.dest, to, junk) + v * Rd(arg, at, junk)),
                        oob |-> \/ d.oob
                                \/ p \notin DOMAIN M.index \/ p \notin DOMAIN M.value
                                \/ to \notin DOMAIN d.dest \/ at \notin DOMAIN arg],
                       m, p + 1, end, junk)

RECURSIVE CSApplyAddFrom(_, _, _, _, _)
\* the outer loop of applyAdd over the major indices from m on
CSApplyAddFrom(M, arg, d, m, junk) ==
  IF m >= MajorDim(M) THEN d
  ELSE LET d2 == CSApplySlice(M, arg, d, m, Rd(M.indPointer, m, junk),
                              Rd(M.indPointer, m + 1, junk), junk)
       IN CSApplyAddFrom(M, arg,
                         [d2 EXCEPT !.oob = \/ @
                                            \/ m \notin DOMAIN M.indPointer
                                            \/ (m + 1) \notin DOMAIN M.indPointer],
                         m + 1, junk)

\* applyAdd ( arg, dest ): [dest, oob]
CSApplyAdd(M, arg, dest, junk) ==
  CSApplyAddFrom(M, arg, [dest |-> dest, oob |-> FALSE], 0, junk)

\* apply ( arg, dest ): [dest, oob].  CSCMatrix clears dest and accumulates;
\* CSRMatrix writes the sum of every row < numRows to dest[row].
CSApply(M, arg, dest, junk) ==
  IF M.kind = "CSC"
  THEN CSApplyAddFrom(M, arg, [dest |-> SetAll(dest, 0), oob |-> FALSE], 0, junk)
  ELSE CSApplyAddFrom(M, arg,
                      [dest |-> [i \in DOMAIN dest |-> IF i < M.numRows THEN 0 ELSE dest[i]],
                       oob |-> M.numRows > VSize(dest)], 0, junk)

(***************************************************************************)
(* SparseMatrix: row handles and row objects                               *)
(* Row objects are numbered 1, 2, ... in the order of their allocation;    *)
(* 0 is the NULL handle.  freeCount[o] counts the deletes of object o.     *)
(***************************************************************************)

Mats == 1..MaxMats
Objs == 1..MaxObjs

Unborn == [state |-> "unborn", numRows |-> 0, numCols |-> 0, rows |-> <<>>,
           deleteRows |-> TRUE]

\* new SparseRow<DataType> n times: the handles of the next n objects
NewRows(next, n) == [k \in 1..n |-> next + k]

\* delete p for every handle p of the sequence hs (delete NULL does nothing)
DeleteAll(fc, hs) ==
  [o \in Objs |-> fc[o] + Cardinality({k \in DOMAIN hs : hs[k] = o})]

\* destroy () without the test of _deleteRows
DestroyFreesAlways(M, fc) == DeleteAll(fc, M.rows)

\* destroy (): delete the rows only if _deleteRows
DestroyFrees(M, fc) == IF M.deleteRows THEN DeleteAll(fc, M.rows) ELSE fc

\* rows.resize ( n ) of std::vector: truncate, or extend by NULL handles
ResizeRows(hs, n) == [k \in 1..n |-> IF k <= Len(hs) THEN hs[k] ELSE 0]

\* the row part of resize / destructiveResize: [rows, fc, used]
ResizeRowPart(M, fc, next, newRows) ==
  IF newRows > M.numRows
  THEN [rows |-> [k \in 1..newRows |->
                    IF k <= M.numRows THEN ResizeRows(M.rows, newRows)[k]
                    ELSE next + (k - M.numRows)],
        fc |-> fc, used |-> newRows - M.numRows]
  ELSE IF newRows < M.numRows
  THEN [rows |-> ResizeRows(M.rows, newRows),
        fc |-> DeleteAll(fc, [k \in 1..(M.numRows - newRows) |->
                                IF newRows + k <= Len(M.rows) THEN M.rows[newRows + k] ELSE 0]),
        used |-> 0]
  ELSE [rows |-> M.rows, fc |-> fc, used |-> 0]

\* resize throws when the number of columns decreases
ResizeThrows(M, newCols) == newCols < M.numCols

\* resize ( new_rows, new_cols ): the sizes are set only if nothing was thrown
ResizeDims(M, newRows, newCols) ==
  IF ResizeThrows(M, newCols) THEN [numRows |-> M.numRows, numCols |-> M.numCols]
  ELSE [numRows |-> newRows, numCols |-> newCols]

\* GenSparseMatrix::reallocate followed by SparseMatrix::init: [rows, fc, used]
ReallocateRows(M, fc, next, newRows) ==
  [rows |-> NewRows(next, newRows),
   fc |-> DeleteAll(fc, [k \in 1..(IF M.numRows > newRows THEN M.numRows - newRows ELSE 0) |->
                           IF newRows + k <= Len(M.rows) THEN M.rows[newRows + k] ELSE 0]),
   used |-> newRows]

\* rows.insert ( rows.begin () + i, p )
InsertAt(hs, i, p) ==
  [k \in 1..(Len(hs) + 1) |-> IF k <= i THEN hs[k] ELSE IF k = i + 1 THEN p ELSE hs[k - 1]]

Alive(m) == mats[m].state = "alive"

\* a loop over i < n reads rows[i] outside the handle vector
RowsReadOutside(M, n) == n > Len(M.rows)

\* SparseMatrix ( Rows, Columns )
Construct(m, R, C) ==
  /\ ~ub
  /\ mats[m].state = "unborn"
  /\ m = 1
  /\ nextId + R <= MaxObjs
  /\ mats' = [mats EXCEPT ![m] = [state |-> "alive", numRows |-> R, numCols |-> C,
                                  rows |-> NewRows(nextId, R), deleteRows |-> TRUE]]
  /\ nextId' = nextId + R
  /\ UNCHANGED <<freeCount, ub, asmVars, rimVars>>

\* The call reads rows[i] for some i < n that is outside the handle vector:
\* undefined behaviour, the run ends there.
Undefined ==
  /\ ub' = TRUE
  /\ UNCHANGED <<mats, freeCount, nextId, triplet, cs, lastOp, rimVars>>

\* SparseMatrix ( mat, FLAT_COPY )
FlatCopy(src, m) ==
  /\ ~ub
  /\ Alive(src)
  /\ mats[m].state = "unborn"
  /\ IF RowsReadOutside(mats[src], mats[src].numRows) THEN Undefined
     ELSE /\ mats' = [mats EXCEPT ![m] = [state |-> "alive", numRows |-> mats[src].numRows,
                                          numCols |-> mats[src].numCols,
                                          rows |-> ResizeRows(mats[src].rows, mats[src].numRows),
                                          deleteRows |-> FALSE]]
          /\ UNCHANGED <<freeCount, nextId, ub, asmVars, rimVars>>

\* resize ( new_rows, new_cols )
DoResize(m, newRows, newCols) ==
  /\ ~ub
  /\ Alive(m)
  /\ IF newRows < mats[m].numRows /\ RowsReadOutside(mats[m], mats[m].numRows)
     THEN Undefined
     ELSE LET r == ResizeRowPart(mats[m], freeCount, nextId, newRows)
              d == ResizeDims(mats[m], newRows, newCols)
          IN /\ nextId + r.used <= MaxObjs
             /\ mats' = [mats EXCEPT ![m].rows = r.rows, ![m].numRows = d.numRows,
                                     ![m].numCols = d.numCols]
             /\ freeCount' = r.fc
             /\ nextId' = nextId + r.used
             /\ UNCHANGED <<ub, asmVars, rimVars>>

\* destructiveResize ( new_rows, new_cols )
DestructiveResize(m, newRows, newCols) ==
  /\ ~ub
  /\ Alive(m)
  /\ IF newRows < mats[m].numRows /\ RowsReadOutside(mats[m], mats[m].numRows)
     THEN Undefined
     ELSE LET r == ResizeRowPart(mats[m], freeCount, nextId, newRows)
          IN /\ nextId + r.used <= MaxObjs
             /\ mats' = [mats EXCEPT ![m].rows = r.rows, ![m].numRows = newRows,
                                     ![m].numCols = newCols]
             /\ freeCount' = r.fc
             /\ nextId' = nextId + r.used
             /\ UNCHANGED <<ub, asmVars, rimVars>>

\* reallocate ( new_rows, new_cols )
Reallocate(m, newRows, newCols) ==
  /\ ~ub
  /\ Alive(m)
  /\ IF RowsReadOutside(mats[m], mats[m].numRows) THEN Undefined
     ELSE LET r == ReallocateRows(mats[m], freeCount, nextId, newRows)
          IN /\ nextId + r.used <= MaxObjs
             /\ mats' = [mats EXCEPT ![m].rows = r.rows, ![m].numRows = newRows,
                                     ![m].numCols = newCols]
             /\ freeCount' = r.fc
             /\ nextId' = nextId + r.used
             /\ UNCHANGED <<ub, asmVars, rimVars>>

\* insertRow ( i ), 0 <= i <= numRows
InsertRow(m, i) ==
  /\ ~ub
  /\ Alive(m)
  /\ i <= mats[m].numRows
  /\ mats[m].numRows < MaxRows
  /\ IF i > Len(mats[m].rows) THEN Undefined
     ELSE /\ nextId + 1 <= MaxObjs
          /\ mats' = [mats EXCEPT ![m].rows = InsertAt(@, i, nextId + 1),
                                  ![m].numRows = @ + 1]
          /\ nextId' = nextId + 1
          /\ UNCHANGED <<freeCount, ub, asmVars, rimVars>>

\* destroyRow ( i ), 0 <= i < numRows
DestroyRow(m, i) ==
  /\ ~ub
  /\ Alive(m)
  /\ i < mats[m].numRows
  /\ IF RowsReadOutside(mats[m], i + 1) THEN Undefined
     ELSE /\ mats' = [mats EXCEPT ![m].rows = EraseAt(@, i), ![m].numRows = @ - 1]
          /\ UNCHANGED <<freeCount, nextId, ub, asmVars, rimVars>>

\* newRow ( I, new SparseRow ), 0 <= I < numRows
NewRow(m, I) ==
  /\ ~ub
  /\ Alive(m)
  /\ I < mats[m].numRows
  /\ IF RowsReadOutside(mats[m], I + 1) THEN Undefined
     ELSE /\ nextId + 1 <= MaxObjs
          /\ freeCount' = DeleteAll(freeCount, <<mats[m].rows[I + 1]>>)
          /\ mats' = [mats EXCEPT ![m].rows[I + 1] = nextId + 1]
          /\ nextId' = nextId + 1
          /\ UNCHANGED <<ub, asmVars, rimVars>>

\* deleteRow ( I ), 0 <= I < numRows
DeleteRow(m, I) ==
  /\ ~ub
  /\ Alive(m)
  /\ I < mats[m].numRows
  /\ IF RowsReadOutside(mats[m], I + 1) THEN Undefined
     ELSE /\ freeCount' = DeleteAll(freeCount, <<mats[m].rows[I + 1]>>)
          /\ mats' = [mats EXCEPT ![m].rows[I + 1] = 0]
          /\ UNCHANGED <<nextId, ub, asmVars, rimVars>>

\* ~SparseMatrix ()
Destroy(m) ==
  /\ ~ub
  /\ Alive(m)
  /\ freeCount' = DestroyFrees(mats[m], freeCount)
  /\ mats' = [mats EXCEPT ![m].state = "dead"]
  /\ UNCHANGED <<nextId, ub, asmVars, rimVars>>

(***************************************************************************)
(* Assembly and conversion: actions                                        *)
(***************************************************************************)

NoCS == CSMatrix("none", 0, 0)

\* no view, no row-indexed matrix, no call made yet
NoView == [kind |-> "none", numRows |-> 0, numCols |-> 0, rowOffset |-> 0, colOffset |-> 0]
NoRim == [numRows |-> 0, numCols |-> 0, rows |-> <<>>, diagEntry |-> 1]
NoRes == [op |-> "none"]

Op(op, i, j, v) == [op |-> op, i |-> i, j |-> j, v |-> v]

\* An empty assembly matrix of any shape; no explicit-storage matrix.
InitAssembly ==
  /\ \E R, C \in 1..MaxDim : triplet = TripletMatrix(R, C)
  /\ cs = NoCS
  /\ lastOp = Op("init", 0, 0, 0)
  /\ ub = FALSE
  /\ mats = [m \in Mats |-> Unborn]
  /\ freeCount = [o \in Objs |-> 0]
  /\ nextId = 0
  /\ view = NoView /\ rim = NoRim /\ res = NoRes

\* No matrix constructed yet, no row object allocated.
InitExplicit ==
  /\ mats = [m \in Mats |-> Unborn]
  /\ freeCount = [o \in Objs |-> 0]
  /\ nextId = 0
  /\ triplet = TripletMatrix(1, 1)
  /\ cs = NoCS
  /\ lastOp = Op("init", 0, 0, 0)
  /\ ub = FALSE
  /\ view = NoView /\ rim = NoRim /\ res = NoRes

Assembling == ~ub /\ cs.kind = "none"

Abs(x) == IF x < 0 THEN 0 - x ELSE x

RECURSIVE AbsSumFrom(_, _)
AbsSumFrom(T, k) == IF k > Size(T) THEN 0 ELSE Abs(T.value[k]) + AbsSumFrom(T, k + 1)

\* Room for one more entry of value v: caps the number and the size of the entries.
Room(T, v) == Size(T) < MaxEntries /\ AbsSumFrom(T, 1) + Abs(v) <= MaxAbsSum

\* add ( i, j, v ) with in-range indices
AsmAdd(i, j, v) ==
  /\ Assembling
  /\ Room(triplet, v)
  /\ i < triplet.numRows /\ j < triplet.numCols
  /\ triplet' = TripletAdd(triplet, i, j, v)
  /\ lastOp' = Op("add", i, j, v)
  /\ UNCHANGED <<cs, ub, expVars, rimVars>>

\* set ( i, j, v ) with in-range indices
AsmSet(i, j, v) ==
  /\ Assembling
  /\ Room(triplet, v)
  /\ i < triplet.numRows /\ j < triplet.numCols
  /\ triplet' = TripletSet(triplet, i, j, v)
  /\ lastOp' = Op("set", i, j, v)
  /\ UNCHANGED <<cs, ub, expVars, rimVars>>

\* sumDuplicates (); on an empty matrix the loop reads outside the index vector
AsmSumDuplicates ==
  /\ Assembling
  /\ IF SumDuplicatesReadsOutside(triplet)
     THEN /\ ub' = TRUE
          /\ \E junk \in JunkVals :
               triplet' = IF junk = 0 THEN triplet
                          ELSE TripletAdd(triplet, junk, junk, junk)
     ELSE /\ ub' = ub
          /\ \E index \in SortedIndexings(triplet) :
               triplet' = SumDuplicatesWith(triplet, index)
  /\ lastOp' = Op("sumDuplicates", Size(triplet), 0, 0)
  /\ UNCHANGED <<cs, expVars, rimVars>>

\* removeRowCol ( i )
AsmRemoveRowCol(i) ==
  /\ Assembling
  /\ triplet' = RemoveRowCol(triplet, i)
  /\ lastOp' = Op("removeRowCol", i, 0, 0)
  /\ UNCHANGED <<cs, ub, expVars, rimVars>>

\* CSCMatrix ( numRows, numCols ) / CSRMatrix ( numRows, numCols )
ConstructCS(kind, R, C) ==
  /\ Assembling
  /\ lastOp.op = "init"
  /\ cs' = CSMatrix(kind, R, C)
  /\ lastOp' = Op("constructCS", R, C, 0)
  /\ UNCHANGED <<triplet, ub, expVars, rimVars>>

\* CSCMatrix ( tripletMatrix ) / CSRMatrix ( tripletMatrix )
ConstructFromTriplet(kind) ==
  /\ Assembling
  /\ \E junk \in JunkVals : cs' = FromTriplet(kind, triplet, junk)
  /\ lastOp' = Op("fromTriplet", 0, 0, 0)
  /\ UNCHANGED <<triplet, ub, expVars, rimVars>>

NextAssembly ==
  \/ \E i, j \in 0..(MaxDim - 1), v \in Vals : AsmAdd(i, j, v)
  \/ \E i, j \in 0..(MaxDim - 1), v \in Vals : AsmSet(i, j, v)
  \/ AsmSumDuplicates
  \/ \E i \in 0..(MaxDim - 1) : AsmRemoveRowCol(i)
  \/ \E kind \in {"CSC", "CSR"}, R, C \in 0..MaxDim : ConstructCS(kind, R, C)
  \/ \E kind \in {"CSC", "CSR"} : ConstructFromTriplet(kind)

\* The assembly matrix and the compressed matrix built from it.
SpecAssembly == InitAssembly /\ [][NextAssembly]_vars

NextExplicit ==
  \/ \E m \in Mats, R \in 0..MaxRows, C \in 1..MaxRows : Construct(m, R, C)
  \/ \E src, m \in Mats : FlatCopy(src, m)
  \/ \E m \in Mats, R \in 0..MaxRows, C \in 1..MaxRows : DoResize(m, R, C)
  \/ \E m \in Mats, R \in 0..MaxRows, C \in 1..MaxRows : DestructiveResize(m, R, C)
  \/ \E m \in Mats, R \in 0..MaxRows, C \in 1..MaxRows : Reallocate(m, R, C)
  \/ \E m \in Mats, i \in 0..MaxRows : InsertRow(m, i)
  \/ \E m \in Mats, i \in 0..MaxRows : DestroyRow(m, i)
  \/ \E m \in Mats, i \in 0..MaxRows : NewRow(m, i)
  \/ \E m \in Mats, i \in 0..MaxRows : DeleteRow(m, i)
  \/ \E m \in Mats : Destroy(m)

\* The explicit-storage matrix, its shared copies and the row objects.
SpecExplicit == InitExplicit /\ [][NextExplicit]_vars

(***************************************************************************)
(* Sub-block views and the checked add: actions                            *)
(***************************************************************************)

\* An empty assembly matrix and a view (of either class) on a block inside it.
InitView ==
  /\ \E R, C \in 1..MaxViewDim : triplet = TripletMatrix(R, C)
  /\ \E kind \in {"offset", "upper"}, nr, nc \in 1..MaxViewDim, ro, co \in 0..(MaxViewDim - 1) :
       /\ ro + nr <= triplet.numRows /\ co + nc <= triplet.numCols
       /\ view = TripletMatrixOffset(kind, nr, nc, ro, co)
  /\ cs = NoCS
  /\ lastOp = Op("init", 0, 0, 0)
  /\ ub = FALSE
  /\ mats = [m \in Mats |-> Unborn]
  /\ freeCount = [o \in Objs |-> 0]
  /\ nextId = 0
  /\ rim = NoRim /\ res = NoRes

\* Room for one more entry of the shared matrix.
ViewRoom(T) == Size(T) < MaxViewEntries

\* view.add ( row, col, v ) with block-local in-range indices
ViewAdd(row, col, v) ==
  /\ ~ub
  /\ ViewRoom(triplet)
  /\ row < view.numRows /\ col < view.numCols
  /\ triplet' = ViewAddCall(view, triplet, row, col, v)
  /\ lastOp' = Op("viewAdd", row, col, v)
  /\ UNCHANGED <<cs, ub, expVars, view, rim, res>>

\* view.set ( row, col, v ) with block-local in-range indices
ViewSet(row, col, v) ==
  /\ ~ub
  /\ ViewRoom(triplet)
  /\ row < view.numRows /\ col < view.numCols
  /\ triplet' = ViewSetCall(view, triplet, row, col, v)
  /\ lastOp' = Op("viewSet", row, col, v)
  /\ UNCHANGED <<cs, ub, expVars, view, rim, res>>

\* view.setZero ()
ViewSetZero ==
  /\ ~ub
  /\ triplet' = OffsetSetZero(view, triplet)
  /\ lastOp' = Op("viewSetZero", 0, 0, 0)
  /\ UNCHANGED <<cs, ub, expVars, view, rim, res>>

\* view.setRowToZero ( i ) with a block-local in-range row
ViewSetRowToZero(i) ==
  /\ ~ub
  /\ i < view.numRows
  /\ triplet' = OffsetSetRowToZero(view, triplet, i)
  /\ lastOp' = Op("viewSetRowToZero", i, 0, 0)
  /\ UNCHANGED <<cs, ub, expVars, view, rim, res>>

\* view.setColToZero ( j ) with a block-local in-range column
ViewSetColToZero(j) ==
  /\ ~ub
  /\ j < view.numCols
  /\ triplet' = OffsetSetColToZero(view, triplet, j)
  /\ lastOp' = Op("viewSetColToZero", 0, j, 0)
  /\ UNCHANGED <<cs, ub, expVars, view, rim, res>>

\* add ( i, j, v ) on the shared matrix in a build with BOUNDS_CHECK, any indices
DebugAdd(i, j, v) ==
  /\ ~ub
  /\ ViewRoom(triplet)
  /\ triplet' = CheckedAdd(triplet, i, j, v).T
  /\ res' = [op |-> "checkedAdd", thrown |-> CheckedAdd(triplet, i, j, v).thrown]
  /\ lastOp' = Op("checkedAdd", i, j, v)
  /\ UNCHANGED <<cs, ub, expVars, view, rim>>

NextView ==
  \/ \E row, col \in 0..(MaxViewDim - 1), v \in Vals : ViewAdd(row, col, v)
  \/ \E row, col \in 0..(MaxViewDim - 1), v \in Vals : ViewSet(row, col, v)
  \/ ViewSetZero
  \/ \E i \in 0..(MaxViewDim - 1) : ViewSetRowToZero(i)
  \/ \E j \in 0..(MaxViewDim - 1) : ViewSetColToZero(j)
  \/ \E i, j \in -1..MaxViewDim, v \in Vals : DebugAdd(i, j, v)

\* The assembly matrix written through a sub-block view and through the checked add.
SpecView == InitView /\ [][NextView]_vars

(***************************************************************************)
(* Row-indexed matrix: actions                                             *)
(***************************************************************************)

\* values passed to set / add on the row-indexed matrix
RimVals == {-1, 0, 1}

\* entries of the argument vector and of the output vector before the call
ArgVals == {1, 2}
DestVals == {0, 3}

Vectors(S) == UNION {[0..(n - 1) -> S] : n \in 1..MaxRimDim}

\* assembly matrices of every shape with up to MaxTripletIn in-range entries
SmallTriplets ==
  UNION {{[numRows |-> R, numCols |-> C, rowIndex |-> r, colIndex |-> c, value |-> v] :
            r \in [1..n -> 0..(R - 1)], c \in [1..n -> 0..(C - 1)], v \in [1..n -> Vals]} :
         R \in 1..MaxRimDim, C \in 1..MaxRimDim, n \in 0..MaxTripletIn}

\* A SparseMatrix ( R, C ): every row present and empty.
InitRowIndexed ==
  /\ \E R, C \in 1..MaxRimDim : rim = RowIndexedMatrix(R, C)
  /\ res = NoRes
  /\ view = NoView
  /\ triplet = TripletMatrix(1, 1)
  /\ cs = NoCS
  /\ lastOp = Op("init", 0, 0, 0)
  /\ ub = FALSE
  /\ mats = [m \in Mats |-> Unborn]
  /\ freeCount = [o \in Objs |-> 0]
  /\ nextId = 0

\* deleteRow ( I ): row I becomes an implicit identity row
RimDeleteRow(I) ==
  /\ ~ub
  /\ I < rim.numRows
  /\ IF RowsReadOutside(rim, I + 1) THEN Undefined
     ELSE /\ rim' = DeleteRowContents(rim, I)
          /\ res' = [op |-> "deleteRow", i |-> I]
          /\ UNCHANGED <<asmVars, expVars, ub, view>>

\* set ( I, J, v ) with in-range indices
RimSet(I, J, v) ==
  /\ ~ub
  /\ I < rim.numRows /\ J < rim.numCols
  /\ IF RowsReadOutside(rim, I + 1) THEN Undefined
     ELSE /\ rim' = GenSet(rim, I, J, v).M
          /\ res' = [op |-> "set", i |-> I, j |-> J, v |-> v,
                     thrown |-> GenSet(rim, I, J, v).thrown]
          /\ UNCHANGED <<asmVars, expVars, ub, view>>

\* add ( I, J, v ) with in-range indices
RimAdd(I, J, v) ==
  /\ ~ub
  /\ I < rim.numRows /\ J < rim.numCols
  /\ IF RowsReadOutside(rim, I + 1) THEN Undefined
     ELSE /\ rim.rows[I + 1].present => Abs(RowGet(rim.rows[I + 1], J) + v) <= MaxRimVal
          /\ rim' = GenAdd(rim, I, J, v).M
          /\ res' = [op |-> "add", i |-> I, j |-> J, v |-> v,
                     thrown |-> GenAdd(rim, I, J, v).thrown]
          /\ UNCHANGED <<asmVars, expVars, ub, view>>

\* The last call changed or built the matrix.  A product leaves the matrix as
\* it is, so a product taken right after a product reaches nothing that the
\* product taken first does not reach.
AfterMutation == res.op \notin {"apply", "applyAdd", "applyMasked"}

\* apply ( Arg, Dest ) with vectors of any size
RimApply(Arg, Dest) ==
  /\ ~ub
  /\ AfterMutation
  /\ IF ~SizesDiffer(rim, Arg, Dest) /\ RowsReadOutside(rim, rim.numRows) THEN Undefined
     ELSE /\ \E junk \in JunkVals :
               res' = [op |-> "apply", arg |-> Arg, before |-> Dest,
                       dest |-> GenApply(rim, Arg, Dest, junk).dest,
                       thrown |-> GenApply(rim, Arg, Dest, junk).thrown,
                       oob |-> GenApply(rim, Arg, Dest, junk).oob]
          /\ UNCHANGED <<asmVars, expVars, ub, view, rim>>

\* applyAdd ( Arg, Dest ) with vectors of any size
RimApplyAdd(Arg, Dest) ==
  /\ ~ub
  /\ AfterMutation
  /\ IF ~SizesDiffer(rim, Arg, Dest) /\ RowsReadOutside(rim, rim.numRows) THEN Undefined
     ELSE /\ \E junk \in JunkVals :
               res' = [op |-> "applyAdd", arg |-> Arg, before |-> Dest,
                       dest |-> GenApplyAdd(rim, Arg, Dest, junk).dest,
                       thrown |-> GenApplyAdd(rim, Arg, Dest, junk).thrown,
                       oob |-> GenApplyAdd(rim, Arg, Dest, junk).oob]
          /\ UNCHANGED <<asmVars, expVars, ub, view, rim>>

\* applyMasked ( Arg, Dest, Mask, mode ), Mask long enough for rows and columns
RimApplyMasked(Arg, Dest, Mask, mode) ==
  /\ ~ub
  /\ AfterMutation
  /\ DOMAIN Mask = 0..((IF rim.numRows > rim.numCols THEN rim.numRows ELSE rim.numCols) - 1)
  /\ IF ~SizesDiffer(rim, Arg, Dest) /\ RowsReadOutside(rim, rim.numRows) THEN Undefined
     ELSE /\ \E junk \in JunkVals :
               res' = [op |-> "applyMasked", arg |-> Arg, before |-> Dest,
                       mask |-> Mask, mode |-> mode,
                       dest |-> ApplyMasked(rim, Arg, Dest, Mask, mode, junk).dest,
                       thrown |-> ApplyMasked(rim, Arg, Dest, Mask, mode, junk).thrown,
                       oob |-> ApplyMasked(rim, Arg, Dest, Mask, mode, junk).oob]
          /\ UNCHANGED <<asmVars, expVars, ub, view, rim>>

\* A.toSparseMatrix ( rim ) for an assembly matrix A holding in-range entries
RimToSparseMatrix(A) ==
  /\ ~ub
  /\ IF /\ RowsReadOutside(rim, rim.numRows)
        /\ \/ A.numRows < rim.numRows
           \/ A.numRows = rim.numRows /\ ~(A.numCols < rim.numCols)
     THEN Undefined
     ELSE /\ rim' = ToSparseMatrix(A, rim).M
          /\ res' = [op |-> "toSparseMatrix", thrown |-> ToSparseMatrix(A, rim).thrown,
                     allPresent |-> \A k \in DOMAIN rim.rows : rim.rows[k].present]
          /\ triplet' = A
          /\ UNCHANGED <<cs, lastOp, expVars, ub, view>>

NextRowIndexed ==
  \/ \E I \in 0..(MaxRimDim - 1) : RimDeleteRow(I)
  \/ \E I, J \in 0..(MaxRimDim - 1), v \in RimVals : RimSet(I, J, v)
  \/ \E I, J \in 0..(MaxRimDim - 1), v \in RimVals : RimAdd(I, J, v)
  \/ \E Arg \in Vectors(ArgVals), Dest \in Vectors(DestVals) : RimApply(Arg, Dest)
  \/ \E Arg \in Vectors(ArgVals), Dest \in Vectors(DestVals) : RimApplyAdd(Arg, Dest)
  \/ \E Arg \in Vectors(ArgVals), Dest \in Vectors(DestVals),
        Mask \in Vectors(BOOLEAN), mode \in Modes : RimApplyMasked(Arg, Dest, Mask, mode)

\* The row-indexed matrix with present and absent rows and its products.
SpecRowIndexed == InitRowIndexed /\ [][NextRowIndexed]_vars

\* resize ( newRows, newCols )
RimResize(newRows, newCols) ==
  /\ ~ub
  /\ IF RowsReadOutside(rim, rim.numRows) /\ newRows < rim.numRows THEN Undefined
     ELSE /\ rim' = ResizeContents(rim, newRows, newCols).M
          /\ res' = [op |-> "resize", newRows |-> newRows, newCols |-> newCols,
                     thrown |-> ResizeContents(rim, newRows, newCols).thrown]
          /\ UNCHANGED <<asmVars, expVars, ub, view>>

NextToSparse ==
  \/ \E I, J \in 0..(MaxRimDim - 1), v \in RimVals : RimSet(I, J, v)
  \/ \E A \in SmallTriplets : RimToSparseMatrix(A)

\* An explicit-storage matrix of any size and contents as the target of toSparseMatrix.
SpecToSparse == InitRowIndexed /\ [][NextToSparse]_vars

\* addMultiple ( O, factor ) with a matrix O of the same size
RimAddMultiple(O, factor) ==
  /\ ~ub
  /\ O.numRows = rim.numRows /\ O.numCols = rim.numCols
  /\ IF RowsReadOutside(rim, rim.numRows) THEN Undefined
     ELSE /\ \A k \in DOMAIN rim.rows, j \in RimCols :
               Abs(AddMultiple(rim, O, factor).rows[k].val[j]) <= MaxRimVal
          /\ rim' = AddMultiple(rim, O, factor)
          /\ res' = [op |-> "addMultiple", other |-> O, factor |-> factor]
          /\ UNCHANGED <<asmVars, expVars, ub, view>>

NextAddMultiple ==
  \/ \E I \in 0..(MaxRimDim - 1) : RimDeleteRow(I)
  \/ \E I, J \in 0..(MaxRimDim - 1), v \in RimVals : RimSet(I, J, v)
  \/ \E R, C \in 1..MaxRimDim, factor \in Vals :
       \E orows \in [1..R -> {NullRow} \cup {[present |-> TRUE, val |-> f] :
                                                f \in [RimCols -> {0, 1}]}] :
         RimAddMultiple([numRows |-> R, numCols |-> C, rows |-> orows, diagEntry |-> 1],
                        factor)

\* A row-indexed matrix with present and absent rows to which a multiple of
\* another one is added.
SpecAddMultiple == InitRowIndexed /\ [][NextAddMultiple]_vars

NextResize ==
  \/ \E I, J \in 0..(MaxRimDim - 1), v \in RimVals : RimSet(I, J, v)
  \/ \E newRows \in 0..MaxRimDim, newCols \in 1..MaxRimDim : RimResize(newRows, newCols)

\* An explicit-storage matrix that is written and resized.
SpecResize == InitRowIndexed /\ [][NextResize]_vars

(***************************************************************************)
(* SparseMatrix ( mat, copyFlag ).  Row objects are numbered: object k is  *)
(* row k of the source, object numRows + k the row the copy allocates for  *)
(* its row k; handle 0 is NULL.  heap maps the objects to their contents.  *)
(***************************************************************************)

\* the matrix read through the handles hs
Through(heap, hs, R, C) ==
  [numRows |-> R, numCols |-> C,
   rows |-> [k \in 1..Len(hs) |-> IF hs[k] = 0 THEN NullRow ELSE heap[hs[k]]],
   diagEntry |-> 1]

\* SparseMatrix ( mat, copyFlag ): [heap, src, cpy, deleteRows, thrown, undefined].
\* DEEP_COPY dereferences mat.rows[i] for every i: undefined for a NULL handle.
CopyConstruct(M, flag) ==
  LET R == M.numRows
      src == [k \in 1..R |-> IF M.rows[k].present THEN k ELSE 0]
  IN [heap |-> [o \in 1..(2 * R) |->
                  IF o <= R THEN M.rows[o]
                  ELSE IF flag = "DEEP_COPY" THEN M.rows[o - R] ELSE EmptyRow],
      src |-> src,
      cpy |-> IF flag \in {"STRUCT_COPY", "DEEP_COPY"} THEN [k \in 1..R |-> R + k]
              ELSE IF flag = "FLAT_COPY" THEN src ELSE <<>>,
      deleteRows |-> flag # "FLAT_COPY",
      thrown |-> flag \notin {"STRUCT_COPY", "DEEP_COPY", "FLAT_COPY"},
      undefined |-> flag = "DEEP_COPY" /\ \E k \in 1..R : ~M.rows[k].present]

\* SparseMatrix copy ( M, flag ) of the matrix M built so far
RimCopy(flag) ==
  /\ ~ub
  /\ res.op \notin {"copy", "copyWrite"}
  /\ res' = [op |-> "copy", flag |-> flag, numRows |-> rim.numRows,
             numCols |-> rim.numCols, c |-> CopyConstruct(rim, flag)]
  /\ ub' = CopyConstruct(rim, flag).undefined
  /\ UNCHANGED <<asmVars, expVars, view, rim>>

\* set ( i, j, v ) through the source ( onCopy = FALSE ) or through the copy
PairSet(onCopy, i, j, v) ==
  /\ ~ub
  /\ res.op = "copy" /\ ~res.c.thrown
  /\ i < res.numRows /\ j < res.numCols
  /\ LET hs == IF onCopy THEN res.c.cpy ELSE res.c.src
         others == IF onCopy THEN res.c.src ELSE res.c.cpy
         r == GenSet(Through(res.c.heap, hs, res.numRows, res.numCols), i, j, v)
         heap2 == IF hs[i + 1] = 0 THEN res.c.heap
                  ELSE [res.c.heap EXCEPT ![hs[i + 1]] = r.M.rows[i + 1]]
     IN res' = [op |-> "copyWrite", flag |-> res.flag, numRows |-> res.numRows,
                numCols |-> res.numCols, c |-> [res.c EXCEPT !.heap = heap2],
                w |-> [onCopy |-> onCopy, i |-> i, j |-> j, v |-> v, thrown |-> r.thrown,
                         otherBefore |-> GenGet(Through(res.c.heap, others, res.numRows,
                                                        res.numCols), i, j),
                         otherAfter |-> GenGet(Through(heap2, others, res.numRows,
                                                       res.numCols), i, j)]]
  /\ UNCHANGED <<asmVars, expVars, ub, view, rim>>

NextCopy ==
  \/ \E I \in 0..(MaxRimDim - 1) : RimDeleteRow(I)
  \/ \E I, J \in 0..(MaxRimDim - 1), v \in RimVals : RimSet(I, J, v)
  \/ \E flag \in {"STRUCT_COPY", "DEEP_COPY", "FLAT_COPY", "OTHER"} : RimCopy(flag)
  \/ \E onCopy \in BOOLEAN, i, j \in 0..(MaxRimDim - 1), v \in RimVals :
       PairSet(onCopy, i, j, v)

\* An explicit-storage matrix, a copy of it and writes through either.
SpecCopy == InitRowIndexed /\ [][NextCopy]_vars

(***************************************************************************)
(* Row and column merges of SparseMatrix.  Here a row is the entry vector  *)
(* of a SparseRow: a sequence of [col, value] kept sorted by col, and the  *)
(* matrix is [numRows, numCols, rows] with every row present.  Iterators   *)
(* are positions 1..Len(row) + 1, the last one being end ().               *)
(***************************************************************************)

MaxListDim == 3
ListVals == {1, 2}
Multiples == {-1, 2}
DiagEntries == {1, 2}

\* SparseRow::get: the value stored for column j, 0 without an entry
ListRowGet(row, j) ==
  IF \E p \in 1..Len(row) : row[p].col = j
  THEN row[CHOOSE p \in 1..Len(row) :
             row[p].col = j /\ \A q \in 1..(p - 1) : row[q].col # j].value
  ELSE 0

\* SparseRow::set: overwrite the entry of column j or insert it in column order
ListRowSet(row, j, v) ==
  IF \E p \in 1..Len(row) : row[p].col = j
  THEN [p \in 1..Len(row) |-> IF row[p].col = j THEN [col |-> j, value |-> v] ELSE row[p]]
  ELSE SelectSeq(row, LAMBDA e : e.col < j) \o <<[col |-> j, value |-> v]>>
       \o SelectSeq(row, LAMBDA e : e.col > j)

\* std::vector::insert before position p
ListInsert(row, p, e) == SubSeq(row, 1, p - 1) \o <<e>> \o SubSeq(row, p, Len(row))

\* std::vector::erase of position p
ListErase(row, p) == SubSeq(row, 1, p - 1) \o SubSeq(row, p + 1, Len(row))

\* Advance without the scan: the iterator stays where it is
AdvanceNot(row, p, c) == p

\* while ( it != row.end () && it->col < c ) ++it;
RECURSIVE Advance(_, _, _)
Advance(row, p, c) ==
  IF p <= Len(row) /\ row[p].col < c THEN Advance(row, p + 1, c) ELSE p

\* addMultipleRowToRow ( from, to, multiple ), from # to
AddMultipleRowToRow(M, from, to, multiple) ==
  LET src == M.rows[from + 1]
      after[n \in 0..Len(src)] ==
        IF n = 0 THEN [row |-> M.rows[to + 1], it_to |-> 1]
        ELSE LET row == after[n - 1].row
                 it_to == Advance(row, after[n - 1].it_to, src[n].col)
             IN IF it_to = Len(row) + 1 \/ row[it_to].col # src[n].col
                THEN [row |-> ListInsert(row, it_to, [col |-> src[n].col,
                                                      value |-> multiple * src[n].value]),
                      it_to |-> it_to]
                ELSE [row |-> [row EXCEPT ![it_to].value = @ + multiple * src[n].value],
                      it_to |-> it_to]
  IN [M EXCEPT !.rows[to + 1] = after[Len(src)].row]

\* addMultipleColToCol ( from, to, multiple ), from # to
AddMultipleColToCol(M, from, to, multiple) ==
  LET first == IF from < to THEN from ELSE to
      second == IF from < to THEN to ELSE from
      MergedCols(row) ==
        LET a == Advance(row, 1, first)
            b == Advance(row, a, second)
            it_first == IF to < from THEN b ELSE a
            it_second == IF to < from THEN a ELSE b
        IN IF it_first # Len(row) + 1 /\ row[it_first].col = from
           THEN IF it_second = Len(row) + 1 \/ row[it_second].col # to
                THEN ListInsert(row, it_second,
                                [col |-> to, value |-> multiple * row[it_first].value])
                ELSE [row EXCEPT ![it_second].value = @ + multiple * row[it_first].value]
           ELSE row
  IN [M EXCEPT !.rows = [k \in 1..Len(M.rows) |-> MergedCols(M.rows[k])]]

\* setRowColToDiagonal ( index, diagEntry ): [M, undefined].  After
\* row.erase ( it ) the loop reads it->col through the invalidated iterator;
\* junk is the column that read yields.  A value below index lets the loop
\* go on and increment the invalidated iterator.
SetRowColToDiagonal(M, index, diagEntry, junk) ==
  LET cleared == [M.rows EXCEPT ![index + 1] = <<>>]
      Scan(row) ==
        LET from[p \in 1..(Len(row) + 1)] ==
              IF p = Len(row) + 1 THEN [row |-> row, undefined |-> FALSE]
              ELSE IF row[p].col = index
                   THEN [row |-> ListErase(row, p), undefined |-> junk < index]
                   ELSE IF row[p].col >= index THEN [row |-> row, undefined |-> FALSE]
                        ELSE from[p + 1]
        IN from[1]
      scanned == [k \in 1..Len(cleared) |-> Scan(cleared[k]).row]
  IN [M |-> [M EXCEPT !.rows = [scanned EXCEPT ![index + 1] =
                                   ListRowSet(@, index, diagEntry)]],
      undefined |-> \E k \in 1..Len(cleared) : Scan(cleared[k]).undefined]

\* collapseRowCol ( from, to, multiple, diagEntry )
CollapseRowCol(M, from, to, multiple, diagEntry, junk) ==
  SetRowColToDiagonal(AddMultipleColToCol(AddMultipleRowToRow(M, from, to, multiple),
                                          from, to, multiple),
                      from, diagEntry, junk)

\* a square SparseMatrix filled by set (): every row present and sorted
InitList ==
  /\ \E N \in 2..MaxListDim :
       \E f \in [(0..(N - 1)) \X (0..(N - 1)) -> {0} \cup ListVals] :
         rim = [numRows |-> N, numCols |-> N,
                rows |-> [k \in 1..N |->
                            LET cols == SelectSeq([c \in 1..N |-> c - 1],
                                                  LAMBDA c : f[<<k - 1, c>>] # 0)
                            IN [p \in 1..Len(cols) |->
                                  [col |-> cols[p], value |-> f[<<k - 1, cols[p]>>]]]]]
  /\ res = [op |-> "init"]
  /\ view = NoView
  /\ triplet = TripletMatrix(1, 1)
  /\ cs = NoCS
  /\ lastOp = Op("init", 0, 0, 0)
  /\ ub = FALSE
  /\ mats = [m \in Mats |-> Unborn]
  /\ freeCount = [o \in Objs |-> 0]
  /\ nextId = 0

ListAddMultipleRowToRow(from, to, multiple) ==
  /\ ~ub /\ res.op = "init"
  /\ from < rim.numRows /\ to < rim.numRows /\ from # to
  /\ rim' = AddMultipleRowToRow(rim, from, to, multiple)
  /\ res' = [op |-> "addMultipleRowToRow", from |-> from, to |-> to,
             multiple |-> multiple, before |-> rim]
  /\ UNCHANGED <<asmVars, expVars, ub, view>>

ListAddMultipleColToCol(from, to, multiple) ==
  /\ ~ub /\ res.op = "init"
  /\ from < rim.numCols /\ to < rim.numCols /\ from # to
  /\ rim' = AddMultipleColToCol(rim, from, to, multiple)
  /\ res' = [op |-> "addMultipleColToCol", from |-> from, to |-> to,
             multiple |-> multiple, before |-> rim]
  /\ UNCHANGED <<asmVars, expVars, ub, view>>

ListSetRowColToDiagonal(index, diagEntry, junk) ==
  /\ ~ub /\ res.op = "init"
  /\ index < rim.numRows
  /\ rim' = SetRowColToDiagonal(rim, index, diagEntry, junk).M
  /\ ub' = SetRowColToDiagonal(rim, index, diagEntry, junk).undefined
  /\ res' = [op |-> "setRowColToDiagonal", index |-> index, diagEntry |-> diagEntry,
             before |-> rim]
  /\ UNCHANGED <<asmVars, expVars, view>>

ListCollapseRowCol(from, to, multiple, diagEntry, junk) ==
  /\ ~ub /\ res.op = "init"
  /\ from < rim.numRows /\ to < rim.numRows /\ from # to
  /\ rim' = CollapseRowCol(rim, from, to, multiple, diagEntry, junk).M
  /\ ub' = CollapseRowCol(rim, from, to, multiple, diagEntry, junk).undefined
  /\ res' = [op |-> "collapseRowCol", from |-> from, to |-> to, multiple |-> multiple,
             diagEntry |-> diagEntry, before |-> rim]
  /\ UNCHANGED <<asmVars, expVars, view>>

NextList ==
  \/ \E from, to \in 0..(MaxListDim - 1), multiple \in Multiples :
       ListAddMultipleRowToRow(from, to, multiple)
  \/ \E from, to \in 0..(MaxListDim - 1), multiple \in Multiples :
       ListAddMultipleColToCol(from, to, multiple)
  \/ \E index \in 0..(MaxListDim - 1), diagEntry \in DiagEntries, junk \in {-1, MaxListDim} :
       ListSetRowColToDiagonal(index, diagEntry, junk)
  \/ \E from, to \in 0..(MaxListDim - 1), multiple \in Multiples, diagEntry \in DiagEntries,
        junk \in {-1, MaxListDim} :
       ListCollapseRowCol(from, to, multiple, diagEntry, junk)

\* One merge operation on a matrix whose rows are sorted.
SpecList == InitList /\ [][NextList]_vars

(***************************************************************************)
(* The row loop of apply / applyMasked / applyAddMasked run by one task    *)
(* per row ( #pragma omp parallel for ).  res holds the call: its vectors, *)
(* Dest as it is now, and per task the position, the value it computed,    *)
(* and per element of Dest the tasks that read and that wrote it.          *)
(***************************************************************************)

\* all tasks write the first element
TargetFirst(i) == 0

\* the element of Dest the loop body of row i reads and writes: Dest[i]
Target(i) == i

\* the loop body of row i passes its test: apply has none, the masked loops
\* test imFunctor ( Mask[i] )
BodyRuns(call, mode, Mask, i) ==
  call = "apply" \/ BitMaskFunctor(ModeRowFunctor(mode), Mask[i])

\* the right-hand side of the loop body of row i
BodyTerm(M, call, mode, Arg, Mask, i, junk) ==
  IF ~M.rows[i + 1].present THEN M.diagEntry * Rd(Arg, i, junk)
  ELSE IF call = "apply" THEN RowMult(M.rows[i + 1], Arg, junk)
  ELSE RowMultMasked(M.rows[i + 1], Arg, Mask, ModeColFunctor(mode), junk)

\* A matrix with present and absent rows and a call whose size test passed;
\* no task has started.
InitParallel ==
  /\ \E R, C \in 1..MaxRimDim :
       /\ \E rows \in [1..R -> {NullRow} \cup {[present |-> TRUE, val |-> f] :
                                                 f \in [RimCols -> {0, 1}]}] :
            rim = [numRows |-> R, numCols |-> C, rows |-> rows, diagEntry |-> 1]
       /\ \E call \in {"apply", "applyMasked", "applyAddMasked"}, mode \in Modes,
             Arg \in [0..(C - 1) -> ArgVals], Dest \in [0..(R - 1) -> DestVals],
             Mask \in [0..((IF R > C THEN R ELSE C) - 1) -> BOOLEAN] :
            /\ call = "apply" => mode = "ALL_WRITE_ALL"
            /\ res = [op |-> "parallel", call |-> call, mode |-> mode, arg |-> Arg,
                      mask |-> Mask, before |-> Dest, dest |-> Dest,
                      pc |-> [i \in 0..(R - 1) |-> "start"],
                      tmp |-> [i \in 0..(R - 1) |-> 0],
                      readers |-> [i \in 0..(R - 1) |-> {}],
                      writers |-> [i \in 0..(R - 1) |-> {}],
                      order |-> <<>>]
  /\ view = NoView
  /\ triplet = TripletMatrix(1, 1)
  /\ cs = NoCS
  /\ lastOp = Op("init", 0, 0, 0)
  /\ ub = FALSE
  /\ mats = [m \in Mats |-> Unborn]
  /\ freeCount = [o \in Objs |-> 0]
  /\ nextId = 0

\* task i evaluates the test and the right-hand side; applyAddMasked reads
\* Dest[i] for its +=
TaskCompute(i) ==
  /\ i \in DOMAIN res.pc /\ res.pc[i] = "start"
  /\ IF ~BodyRuns(res.call, res.mode, res.mask, i)
     THEN res' = [res EXCEPT !.pc[i] = "done", !.order = Append(@, i)]
     ELSE \E junk \in JunkVals :
            res' = [res EXCEPT
                      !.pc[i] = "computed",
                      !.tmp[i] = (IF res.call = "applyAddMasked" THEN res.dest[Target(i)] ELSE 0)
                                 + BodyTerm(rim, res.call, res.mode, res.arg, res.mask, i, junk),
                      !.readers[Target(i)] = IF res.call = "applyAddMasked" THEN @ \cup {i} ELSE @,
                      !.order = Append(@, i)]
  /\ UNCHANGED <<asmVars, expVars, ub, view, rim>>

\* task i stores the value it computed
TaskWrite(i) ==
  /\ i \in DOMAIN res.pc /\ res.pc[i] = "computed"
  /\ res' = [res EXCEPT !.pc[i] = "done", !.dest[Target(i)] = res.tmp[i],
                        !.writers[Target(i)] = @ \cup {i}, !.order = Append(@, i)]
  /\ UNCHANGED <<asmVars, expVars, ub, view, rim>>

NextParallel ==
  \/ \E i \in 0..(MaxRimDim - 1) : TaskCompute(i)
  \/ \E i \in 0..(MaxRimDim - 1) : TaskWrite(i)

\* The tasks of one call in every interleaving.
SpecParallel == InitParallel /\ [][NextParallel]_vars

(***************************************************************************)
(* The compressed matrix: construction, set, add and the products          *)
(***************************************************************************)

\* values written by set and add
CSVals == {-1, 0, 1}

CSVectors(S) == UNION {[0..(n - 1) -> S] : n \in 1..MaxCSDim}

\* assembly matrices of every shape with up to MaxTripletIn in-range entries
CSTriplets ==
  UNION {{[numRows |-> R, numCols |-> C, rowIndex |-> r, colIndex |-> c, value |-> v] :
            r \in [1..n -> 0..(R - 1)], c \in [1..n -> 0..(C - 1)], v \in [1..n -> Vals]} :
         R \in 1..MaxCSDim, C \in 1..MaxCSDim, n \in 0..MaxTripletIn}

\* No compressed matrix exists yet.
InitCompressed ==
  /\ triplet = TripletMatrix(1, 1)
  /\ cs = NoCS
  /\ lastOp = Op("init", 0, 0, 0)
  /\ ub = FALSE
  /\ mats = [m \in Mats |-> Unborn]
  /\ freeCount = [o \in Objs |-> 0]
  /\ nextId = 0
  /\ view = NoView
  /\ rim = NoRim
  /\ res = NoRes

\* a compressed matrix exists and no call has read or written outside an array
Compressed == ~ub /\ cs.kind # "none" /\ ~cs.oob

\* set ( i, j, v ) with in-range indices
CompressedSet(i, j, v) ==
  /\ Compressed
  /\ i < cs.numRows /\ j < cs.numCols
  /\ \E junk \in JunkVals : cs' = CSSet(cs, i, j, v, junk)
  /\ res' = [op |-> "csSet", i |-> i, j |-> j, v |-> v, nnzBefore |-> VSize(cs.index)]
  /\ UNCHANGED <<triplet, lastOp, ub, expVars, view, rim>>

\* add ( i, j, v ) with in-range indices
CompressedAdd(i, j, v) ==
  /\ Compressed
  /\ i < cs.numRows /\ j < cs.numCols
  /\ Abs(CSGet(cs, i, j, 0).v + v) <= MaxCSVal
  /\ \E junk \in JunkVals : cs' = CSAdd(cs, i, j, v, junk)
  /\ res' = [op |-> "csAdd", i |-> i, j |-> j, v |-> v, nnzBefore |-> VSize(cs.index)]
  /\ UNCHANGED <<triplet, lastOp, ub, expVars, view, rim>>

\* setZero ()
CompressedSetZero ==
  /\ Compressed
  /\ res.op # "csSetZero"
  /\ cs' = CSSetZero(cs)
  /\ res' = [op |-> "csSetZero"]
  /\ UNCHANGED <<triplet, lastOp, ub, expVars, view, rim>>

\* The last call changed or built the compressed matrix.
AfterCSMutation == res.op \notin {"csApply", "csApplyAdd"}

\* apply ( arg, dest ) with vectors of any size
CompressedApply(arg, dest) ==
  /\ Compressed
  /\ AfterCSMutation
  /\ \E junk \in JunkVals :
       res' = [op |-> "csApply", arg |-> arg, before |-> dest,
               dest |-> CSApply(cs, arg, dest, junk).dest,
               oob |-> CSApply(cs, arg, dest, junk).oob]
  /\ UNCHANGED <<asmVars, ub, expVars, view, rim>>

\* applyAdd ( arg, dest ) with vectors of any size
CompressedApplyAdd(arg, dest) ==
  /\ Compressed
  /\ AfterCSMutation
  /\ \E junk \in JunkVals :
       res' = [op |-> "csApplyAdd", arg |-> arg, before |-> dest,
               dest |-> CSApplyAdd(cs, arg, dest, junk).dest,
               oob |-> CSApplyAdd(cs, arg, dest, junk).oob]
  /\ UNCHANGED <<asmVars, ub, expVars, view, rim>>

\* CSCMatrix csc ( A ) and CSRMatrix csr ( A ) of one assembly matrix A
ConstructPair(A) ==
  /\ Assembling
  /\ lastOp.op = "init"
  /\ \E junk \in JunkVals :
       res' = [op |-> "constructPair", csc |-> FromTriplet("CSC", A, junk),
               csr |-> FromTriplet("CSR", A, junk)]
  /\ triplet' = A
  /\ lastOp' = Op("constructPair", 0, 0, 0)
  /\ UNCHANGED <<cs, ub, expVars, view, rim>>

\* apply ( isAdd = FALSE ) or applyAdd on csc and on csr with the same vectors
\* of matching size
ApplyPair(arg, dest, isAdd) ==
  /\ ~ub
  /\ res.op = "constructPair"
  /\ VSize(arg) = triplet.numCols /\ VSize(dest) = triplet.numRows
  /\ \E junk \in JunkVals :
       LET viaCSC == IF isAdd THEN CSApplyAdd(res.csc, arg, dest, junk)
                     ELSE CSApply(res.csc, arg, dest, junk)
           viaCSR == IF isAdd THEN CSApplyAdd(res.csr, arg, dest, junk)
                     ELSE CSApply(res.csr, arg, dest, junk)
       IN res' = [op |-> "applyPair", arg |-> arg, before |-> dest, isAdd |-> isAdd,
                  destCSC |-> viaCSC.dest, destCSR |-> viaCSR.dest,
                  oob |-> res.csc.oob \/ res.csr.oob \/ viaCSC.oob \/ viaCSR.oob]
  /\ lastOp' = Op("applyPair", 0, 0, 0)
  /\ UNCHANGED <<triplet, cs, ub, expVars, view, rim>>

NextCompressed ==
  \/ \E kind \in {"CSC", "CSR"}, R, C \in 1..MaxCSDim : ConstructCS(kind, R, C)
  \/ \E i, j \in 0..(MaxCSDim - 1), v \in CSVals : CompressedSet(i, j, v)
  \/ \E i, j \in 0..(MaxCSDim - 1), v \in CSVals : CompressedAdd(i, j, v)
  \/ CompressedSetZero
  \/ \E arg \in CSVectors(ArgVals), dest \in CSVectors(DestVals) : CompressedApply(arg, dest)
  \/ \E arg \in CSVectors(ArgVals), dest \in CSVectors(DestVals) : CompressedApplyAdd(arg, dest)
  \/ \E A \in CSTriplets : ConstructPair(A)
  \/ \E arg \in CSVectors(ArgVals), dest \in CSVectors(DestVals), isAdd \in BOOLEAN :
       ApplyPair(arg, dest, isAdd)

\* A compressed matrix built empty and filled by set and add, its products,
\* and the products of the two compressed forms of one assembly matrix.
SpecCompressed == InitCompressed /\ [][NextCompressed]_vars

(***************************************************************************)
(* Properties                                                              *)
(***************************************************************************)

Rows(T) == 0..(T.numRows - 1)
Cols(T) == 0..(T.numCols - 1)

Converted == lastOp.op = "fromTriplet"

\* C1: the compressed matrix built from the assembly matrix reads, at every
\* in-range (i, j), the value the assembly matrix reads there, and neither the
\* conversion nor the read touches a position outside an array.
C1_ConversionEquivalence ==
  Converted =>
    /\ ~cs.oob
    /\ \A i \in Rows(triplet), j \in Cols(triplet), junk \in JunkVals :
         /\ ~CSGet(cs, i, j, junk).oob
         /\ CSGet(cs, i, j, junk).v = TripletGet(triplet, i, j)

\* positions of major slice m: [pointer[m], pointer[m + 1])
Slice(M, m) == {p \in Rd(M.indPointer, m, 0)..(Rd(M.indPointer, m + 1, 0) - 1) : TRUE}

\* C2: after the construction from an assembly matrix the minor indices of
\* every major slice are stored and strictly increasing.
C2_SlicesStrictlyIncreasing ==
  Converted =>
    \A m \in 0..(MajorDim(cs) - 1) :
      /\ Slice(cs, m) \subseteq DOMAIN cs.index
      /\ \A p, q \in Slice(cs, m) : p < q => cs.index[p] < cs.index[q]

\* C3: after either construction the pointer array has majorDimension + 1
\* entries, starts at 0, never decreases and ends at nnz, the length of the
\* index and of the value array.
C3_PointerShape ==
  cs.kind # "none" =>
    /\ DOMAIN cs.indPointer = 0..MajorDim(cs)
    /\ cs.indPointer[0] = 0
    /\ \A m \in 0..(MajorDim(cs) - 1) : cs.indPointer[m] <= cs.indPointer[m + 1]
    /\ DOMAIN cs.index = 0..(cs.indPointer[MajorDim(cs)] - 1)
    /\ DOMAIN cs.value = DOMAIN cs.index

\* sumDuplicates has just run on a matrix that held entries
Summed == lastOp.op = "sumDuplicates" /\ lastOp.i > 0

\* C4: after sumDuplicates every coordinate is held by at most one entry.
C4_AtMostOneEntryPerCoordinate ==
  Summed =>
    \A k1, k2 \in 1..Size(triplet) :
      (triplet.rowIndex[k1] = triplet.rowIndex[k2]
         /\ triplet.colIndex[k1] = triplet.colIndex[k2]) => k1 = k2

\* C5: after sumDuplicates no stored entry has the value zero.
C5_NoZeroEntryLeft ==
  Summed => \A k \in 1..Size(triplet) : triplet.value[k] # 0

\* C6: sumDuplicates is idempotent: a second call right after a first one on a
\* non-empty matrix leaves the stored entries as they are.
C6_SumDuplicatesIdempotent ==
  [][(Summed /\ lastOp'.op = "sumDuplicates") => triplet' = triplet]_vars

\* C7: get starts at zero everywhere, add ( i, j, v ) raises get ( i, j ) by v
\* and no other get, so that after adds only get is the sum of the values
\* added, and sumDuplicates on a matrix holding entries changes no get.
C7_GetIsSumOfAdded ==
  /\ lastOp.op = "init" =>
       \A i \in Rows(triplet), j \in Cols(triplet) : TripletGet(triplet, i, j) = 0
  /\ [][/\ lastOp'.op = "add" =>
             \A i \in Rows(triplet), j \in Cols(triplet) :
               TripletGet(triplet', i, j) =
                 TripletGet(triplet, i, j)
                   + (IF i = lastOp'.i /\ j = lastOp'.j THEN lastOp'.v ELSE 0)
        /\ (lastOp'.op = "sumDuplicates" /\ Size(triplet) > 0) =>
             \A i \in Rows(triplet), j \in Cols(triplet) :
               TripletGet(triplet', i, j) = TripletGet(triplet, i, j)]_vars

\* C7 witness: sumDuplicates has merged duplicates of an entry that reads non-zero.
C7_Witness ==
  /\ Summed
  /\ Size(triplet) < lastOp.i
  /\ \E i \in Rows(triplet), j \in Cols(triplet) : TripletGet(triplet, i, j) = 2

\* positions of T (1-based) that touch neither row i nor column i
Kept(T, i) == {k \in 1..Size(T) : T.rowIndex[k] # i /\ T.colIndex[k] # i}

RECURSIVE KeptSeq(_, _, _)
\* the entries of T from position k on that touch neither row nor column i,
\* in their order, with every index above i lowered by one
KeptSeq(T, i, k) ==
  IF k > Size(T) THEN <<>>
  ELSE (IF k \in Kept(T, i)
        THEN << <<IF T.rowIndex[k] > i THEN T.rowIndex[k] - 1 ELSE T.rowIndex[k],
                  IF T.colIndex[k] > i THEN T.colIndex[k] - 1 ELSE T.colIndex[k],
                  T.value[k]>> >>
        ELSE <<>>) \o KeptSeq(T, i, k + 1)

Entries(T) == [k \in 1..Size(T) |-> <<T.rowIndex[k], T.colIndex[k], T.value[k]>>]

\* C8: removeRowCol ( i ) removes every entry touching row or column i, lowers
\* every larger index of the others by one and changes nothing else.
C8_RemoveRowColExact ==
  [][lastOp'.op = "removeRowCol" =>
       Entries(triplet') = KeptSeq(triplet, lastOp'.i, 1)]_vars

\* C9: the row-handle sequence of a matrix has numRows entries in every state.
C9_HandleCountIsNumRows ==
  \A m \in Mats : Alive(m) => Len(mats[m].rows) = mats[m].numRows

\* the row objects matrix M holds
Held(M) == {M.rows[k] : k \in DOMAIN M.rows} \ {0}

\* C10: destroying a matrix that does not own its rows frees no row object;
\* destroying one that owns them frees each row object it holds exactly once
\* and no other.
C10_DestroyFreesOwnedRowsOnce ==
  [][\A m \in Mats :
       (mats[m].state = "alive" /\ mats'[m].state = "dead") =>
         IF mats[m].deleteRows
         THEN \A o \in Objs :
                freeCount'[o] = freeCount[o] + (IF o \in Held(mats[m]) THEN 1 ELSE 0)
         ELSE freeCount' = freeCount]_vars

\* C10 witness: a destroyed shared copy none of whose rows was freed, and a
\* destroyed owner each of whose rows was freed once.
C10_Witness ==
  /\ \E m \in Mats : /\ mats[m].state = "dead" /\ ~mats[m].deleteRows
                     /\ Held(mats[m]) # {}
                     /\ \A o \in Held(mats[m]) : freeCount[o] = 0
  /\ \E m \in Mats : /\ mats[m].state = "dead" /\ mats[m].deleteRows
                     /\ Held(mats[m]) # {}
                     /\ \A o \in Held(mats[m]) : freeCount[o] = 1

\* C11: through the upper-triangular view a write (add or set) with local
\* row > local column leaves the shared matrix unchanged, and an add with local
\* row <= local column appends exactly (row + rowOffset, col + colOffset, value).
C11_UpperTriangleDropsLowerWrites ==
  [][view.kind = "upper" =>
       /\ (lastOp'.op \in {"viewAdd", "viewSet"} /\ lastOp'.i > lastOp'.j) =>
            triplet' = triplet
       /\ (lastOp'.op = "viewAdd" /\ lastOp'.i <= lastOp'.j) =>
            Entries(triplet') =
              Append(Entries(triplet), <<lastOp'.i + view.rowOffset,
                                         lastOp'.j + view.colOffset, lastOp'.v>>)]_vars

\* C15: with range checking, add ( i, j, v ) with i or j outside the matrix
\* raises and appends nothing; with in-range indices it appends exactly
\* (i, j, v) and changes no other entry.
C15_CheckedAddRejectsOutOfRange ==
  [][lastOp'.op = "checkedAdd" =>
       IF lastOp'.i \in Rows(triplet) /\ lastOp'.j \in Cols(triplet)
       THEN /\ ~res'.thrown
            /\ Entries(triplet') =
                 Append(Entries(triplet), <<lastOp'.i, lastOp'.j, lastOp'.v>>)
       ELSE res'.thrown /\ triplet' = triplet]_vars

\* the mask bit of row i is false
MaskedOut(i) == ~res.mask[i]

\* C12: on a square matrix applyMasked in mode BD_WRITE_INT or ALL_WRITE_INT
\* leaves Dest[i] = Arg[i] for every row i whose mask bit is false, whatever
\* Dest held before.
C12_MaskedOutRowsCopyArg ==
  (/\ res.op = "applyMasked" /\ ~res.thrown
   /\ rim.numRows = rim.numCols
   /\ res.mode \in {"BD_WRITE_INT", "ALL_WRITE_INT"}) =>
    \A i \in DOMAIN res.dest : MaskedOut(i) => res.dest[i] = res.arg[i]

\* C13: with a mask whose bits are all true applyMasked yields, in each of the
\* five modes, the Dest that apply yields, without reading outside a vector.
C13_AllTrueMaskIsApply ==
  (/\ res.op = "applyMasked" /\ ~res.thrown
   /\ \A i \in DOMAIN res.mask : res.mask[i]) =>
    /\ ~res.oob
    /\ \A junk \in JunkVals :
         res.dest = GenApply(rim, res.arg, res.before, junk).dest

\* set / add has just been called on row i, which was absent
OnAbsentRow == res'.op \in {"set", "add"} /\ ~rim.rows[res'.i + 1].present

\* C16: on an absent row set ( i, j, v ) with v = 0 or (i = j and v the shared
\* diagonal) and add ( i, j, v ) with v = 0 do nothing; every other set or add
\* fails and leaves every row handle and every get as it was.
C16_AbsentRowWrites ==
  [][OnAbsentRow =>
       /\ rim' = rim
       /\ res'.thrown <=>
            IF res'.op = "set"
            THEN ~(res'.v = 0 \/ (res'.i = res'.j /\ res'.v = rim.diagEntry))
            ELSE res'.v # 0]_vars

\* C16 witness: a set of a value that is neither zero nor the diagonal value on
\* the diagonal of an absent row has failed.
C16_Witness ==
  /\ res.op = "set" /\ res.thrown
  /\ ~rim.rows[res.i + 1].present
  /\ res.i = res.j /\ res.v = -1

\* C17: where row i is present, or i = j and v is the shared diagonal value,
\* get ( i, j ) right after set ( i, j, v ) is v and every other get is unchanged.
C17_GetAfterSet ==
  [][(/\ res'.op = "set"
      /\ \/ rim.rows[res'.i + 1].present
         \/ res'.i = res'.j /\ res'.v = rim.diagEntry) =>
       \A a \in 0..(rim.numRows - 1), b \in 0..(rim.numCols - 1) :
         GenGet(rim', a, b) =
           IF a = res'.i /\ b = res'.j THEN res'.v ELSE GenGet(rim, a, b)]_vars

\* C17 witness: a set on a present row whose get now reads the non-zero value
\* written, next to an absent row set to the diagonal value.
C17_Witness ==
  /\ res.op = "set" /\ ~res.thrown
  /\ rim.rows[res.i + 1].present /\ res.v = -1
  /\ GenGet(rim, res.i, res.j) = -1
  /\ \E k \in DOMAIN rim.rows : ~rim.rows[k].present

RECURSIVE SumGetFrom(_, _, _, _)
\* the sum over j >= from of get ( i, j ) * Arg[j]
SumGetFrom(M, i, Arg, j) ==
  IF j >= M.numCols THEN 0 ELSE GenGet(M, i, j) * Arg[j] + SumGetFrom(M, i, Arg, j + 1)

\* C18: apply sets every Dest[i] to the sum over j of get ( i, j ) * Arg[j],
\* applyAdd adds that sum to the prior Dest[i]; with sizes that do not match
\* both fail and write nothing.  No read falls outside a vector.
C18_ApplyIsRowSums ==
  res.op \in {"apply", "applyAdd"} =>
    IF SizesDiffer(rim, res.arg, res.before)
    THEN res.thrown /\ res.dest = res.before
    ELSE /\ ~res.thrown /\ ~res.oob
         /\ \A i \in DOMAIN res.dest :
              res.dest[i] = (IF res.op = "applyAdd" THEN res.before[i] ELSE 0)
                            + SumGetFrom(rim, i, res.arg, 0)

\* C14: after A.toSparseMatrix ( T ) on a target whose rows were all present
\* the target has A's dimensions and reads A's value at every ( i, j ).
C14_ToSparseMatrixRoundTrip ==
  (res.op = "toSparseMatrix" /\ res.allPresent) =>
    /\ ~res.thrown
    /\ rim.numRows = triplet.numRows /\ rim.numCols = triplet.numCols
    /\ Len(rim.rows) = rim.numRows
    /\ \A i \in Rows(triplet), j \in Cols(triplet) :
         GenGet(rim, i, j) = TripletGet(triplet, i, j)

\* the structural invariants of a compressed matrix: the pointer array has
\* majorDimension + 1 entries, starts at 0, never decreases and ends at nnz,
\* the index and value arrays have nnz entries, and within each slice the minor
\* indices are in range and strictly increasing
CSInv(M) ==
  /\ DOMAIN M.indPointer = 0..MajorDim(M)
  /\ M.indPointer[0] = 0
  /\ \A m \in 0..(MajorDim(M) - 1) : M.indPointer[m] <= M.indPointer[m + 1]
  /\ DOMAIN M.index = 0..(M.indPointer[MajorDim(M)] - 1)
  /\ DOMAIN M.value = DOMAIN M.index
  /\ \A m \in 0..(MajorDim(M) - 1) :
       \A p, q \in Slice(M, m) :
         /\ M.index[p] \in 0..((IF M.kind = "CSC" THEN M.numRows ELSE M.numCols) - 1)
         /\ p < q => M.index[p] < M.index[q]

\* C19: set and add on a compressed matrix that satisfies the structural
\* invariants leave them satisfied, and after set(r,c,v) get(r,c) is v while
\* get at every other coordinate is what it was.
C19_SetAddPreserveInvariants ==
  [][(res'.op \in {"csSet", "csAdd"} /\ CSInv(cs)) =>
       /\ CSInv(cs')
       /\ ~cs'.oob
       /\ res'.op = "csSet" =>
            \A a \in 0..(cs.numRows - 1), b \in 0..(cs.numCols - 1) :
              /\ ~CSGet(cs', a, b, 0).oob
              /\ CSGet(cs', a, b, 0).v =
                   IF a = res'.i /\ b = res'.j THEN res'.v ELSE CSGet(cs, a, b, 0).v]_vars

\* a set has spliced an entry in front of two stored entries of a matrix of
\* either kind that satisfies the invariants
C19_Witness ==
  /\ res.op = "csSet"
  /\ cs.kind # "none" /\ CSInv(cs)
  /\ VSize(cs.index) >= 3
  /\ VSize(cs.index) = res.nnzBefore + 1
  /\ res.v # 0
  /\ CSGet(cs, res.i, res.j, 0).v = res.v
  /\ Major(cs, res.i, res.j) = 0
  /\ cs.indPointer[1] = 1

RECURSIVE CSRowSumFrom(_, _, _, _)
\* the sum over the columns j..numCols-1 of get ( i, j ) * x[j]
CSRowSumFrom(M, i, x, j) ==
  IF j >= M.numCols THEN 0
  ELSE CSGet(M, i, j, 0).v * x[j] + CSRowSumFrom(M, i, x, j + 1)

\* the vectors of the last product fit the compressed matrix
CSSizesMatch(M) == VSize(res.arg) = M.numCols /\ VSize(res.before) = M.numRows

\* C20: on a compressed matrix that satisfies the structural invariants and
\* vectors of matching size apply sets dest[i]
\* to the sum over j of get(i,j) * x[j] whatever dest held, applyAdd adds that
\* sum to dest[i], and the CSC and the CSR matrix built from one assembly
\* matrix give the same result.
C20_CompressedProducts ==
  /\ (res.op \in {"csApply", "csApplyAdd"} /\ CSInv(cs) /\ CSSizesMatch(cs)) =>
       /\ ~res.oob
       /\ \A i \in 0..(cs.numRows - 1) :
            res.dest[i] = (IF res.op = "csApplyAdd" THEN res.before[i] ELSE 0)
                            + CSRowSumFrom(cs, i, res.arg, 0)
  /\ res.op = "applyPair" => (~res.oob /\ res.destCSC = res.destCSR)

\* C29: sumDuplicates on an assembly matrix without entries terminates, reads
\* no position outside the entry sequences and leaves the matrix empty.
C29_SumDuplicatesOnEmpty ==
  (lastOp.op = "sumDuplicates" /\ lastOp.i = 0) => (~ub /\ Size(triplet) = 0)

\* every matrix object that was constructed has been destroyed
AllDestroyed ==
  /\ \E m \in Mats : mats[m].state = "dead"
  /\ \A m \in Mats : mats[m].state # "alive"

\* C28: whatever is done to a matrix and its shared copies, no row object is
\* freed twice, and once all of them are destroyed every row object that was
\* allocated has been freed exactly once.
C28_EveryRowFreedExactlyOnce ==
  ~ub =>
    /\ \A o \in Objs : freeCount[o] <= 1
    /\ AllDestroyed => \A o \in 1..nextId : freeCount[o] = 1

\* C30: after setZero on a compressed matrix the pointer array still has
\* majorDimension + 1 entries and every in-range get returns 0 without reading
\* outside an array, and a set ( i, j, v ) that follows makes get ( i, j ) = v.
C30_SetZeroKeepsMatrixUsable ==
  /\ [](res.op = "csSetZero" =>
          /\ DOMAIN cs.indPointer = 0..MajorDim(cs)
          /\ \A i \in 0..(cs.numRows - 1), j \in 0..(cs.numCols - 1), junk \in JunkVals :
               CSGet(cs, i, j, junk).v = 0 /\ ~CSGet(cs, i, j, junk).oob)
  /\ [][(res.op = "csSetZero" /\ res'.op = "csSet") =>
          /\ ~cs'.oob
          /\ \A junk \in JunkVals : CSGet(cs', res'.i, res'.j, junk).v = res'.v]_vars

\* the stored entries of T outside the rectangle of view V, in their order
OutsideView(V, T) ==
  SelectSeq(Entries(T),
            LAMBDA t : ~(/\ t[1] >= V.rowOffset /\ t[1] < V.rowOffset + V.numRows
                         /\ t[2] >= V.colOffset /\ t[2] < V.colOffset + V.numCols))

\* C27: a set, add, setZero, setRowToZero or setColToZero through a view with
\* block-local in-range arguments leaves the row index, column index and value
\* of every stored entry outside the view's rectangle as they were.
C27_ViewWritesStayInsideBlock ==
  [][lastOp'.op \in {"viewSet", "viewAdd", "viewSetZero", "viewSetRowToZero",
                     "viewSetColToZero"} =>
       OutsideView(view, triplet') = OutsideView(view, triplet)]_vars

\* C22: resize ( newRows, newCols ) with newCols >= numCols sets the dimensions,
\* keeps get ( i, j ) for every row i below the old and the new number of rows
\* and makes every added row present and zero; with newCols < numCols it fails.
C22_ResizeKeepsContents ==
  [][(res'.op = "resize" /\ ~ub') =>
       IF res'.newCols < rim.numCols THEN res'.thrown
       ELSE /\ ~res'.thrown
            /\ rim'.numRows = res'.newRows /\ rim'.numCols = res'.newCols
            /\ Len(rim'.rows) = rim'.numRows
            /\ \A i \in 0..(rim.numRows - 1), j \in 0..(rim.numCols - 1) :
                 i < res'.newRows =>
                   /\ (i + 1) \in DOMAIN rim.rows
                   /\ GenGet(rim', i, j) = GenGet(rim, i, j)
            /\ \A i \in rim.numRows..(res'.newRows - 1), j \in 0..(res'.newCols - 1) :
                 rim'.rows[i + 1].present /\ GenGet(rim', i, j) = 0]_vars

\* C24: after M.addMultiple ( O, factor ) on matrices of equal size every
\* M.get ( i, j ) is its old value plus factor * O.get ( i, j ), whether row i
\* is present or absent in M and in O.
C24_AddMultipleAddsScaledEntries ==
  [][(res'.op = "addMultiple" /\ ~ub') =>
       \A i \in 0..(rim.numRows - 1), j \in 0..(rim.numCols - 1) :
         GenGet(rim', i, j) = GenGet(rim, i, j) + res'.factor * GenGet(res'.other, i, j)]_vars

\* the values the sequential loop can leave in Dest[i]
SequentialDest(i) ==
  IF ~BodyRuns(res.call, res.mode, res.mask, i) THEN {res.before[i]}
  ELSE {(IF res.call = "applyAddMasked" THEN res.before[i] ELSE 0)
          + BodyTerm(rim, res.call, res.mode, res.arg, res.mask, i, junk) :
        junk \in JunkVals}

\* C26: with the row loop of apply / applyMasked / applyAddMasked run by one
\* task per row, every Dest[i] is written by task i only, no task reads an
\* element another task writes, and when all tasks are done Dest is what the
\* sequential loop leaves, in every interleaving.
C26_RowTasksDoNotInterfere ==
  res.op = "parallel" =>
    /\ \A i \in DOMAIN res.dest :
         /\ res.writers[i] \subseteq {i}
         /\ \A t \in res.readers[i] : res.writers[i] \subseteq {t}
    /\ (\A i \in DOMAIN res.pc : res.pc[i] = "done") =>
         \A i \in DOMAIN res.dest :
           /\ res.dest[i] \in SequentialDest(i)
           /\ BodyRuns(res.call, res.mode, res.mask, i) => res.writers[i] = {i}

\* an applyAddMasked on two rows is done, both tasks read and wrote, and task 1
\* computed and stored between the read and the write of task 0
C26_Witness ==
  /\ res.op = "parallel" /\ res.call = "applyAddMasked"
  /\ res.order = <<0, 1, 1, 0>>
  /\ res.writers = (0 :> {0} @@ 1 :> {1})
  /\ res.dest # res.before

\* the source and the copy of the last copy construction, read through their handles
CopySource == Through(res.c.heap, res.c.src, res.numRows, res.numCols)
CopyResult == Through(res.c.heap, res.c.cpy, res.numRows, res.numCols)

\* C23: an independent copy shares no row object with its source and reads as
\* the source at every coordinate, and a later write to either is invisible
\* to the other; a structure-only copy has the source's dimensions, every row
\* present and every entry zero; a shared copy holds exactly the source's row
\* objects and does not own them, and a write through either is read back
\* through the other; every other copy policy fails.
C23_CopyPolicies ==
  /\ res.op = "copy" =>
       /\ ~res.c.undefined
       /\ res.c.thrown <=> res.flag \notin {"STRUCT_COPY", "DEEP_COPY", "FLAT_COPY"}
       /\ res.flag = "DEEP_COPY" =>
            /\ Len(res.c.cpy) = res.numRows
            /\ \A k, l \in 1..res.numRows :
                 res.c.cpy[k] = 0 \/ res.c.cpy[k] # res.c.src[l]
            /\ \A i \in 0..(res.numRows - 1), j \in 0..(res.numCols - 1) :
                 GenGet(CopyResult, i, j) = GenGet(CopySource, i, j)
       /\ res.flag = "STRUCT_COPY" =>
            /\ Len(res.c.cpy) = res.numRows
            /\ \A i \in 0..(res.numRows - 1), j \in 0..(res.numCols - 1) :
                 CopyResult.rows[i + 1].present /\ GenGet(CopyResult, i, j) = 0
       /\ res.flag = "FLAT_COPY" => (res.c.cpy = res.c.src /\ ~res.c.deleteRows)
  /\ (res.op = "copyWrite" /\ res.flag = "DEEP_COPY") => res.w.otherAfter = res.w.otherBefore
  /\ (res.op = "copyWrite" /\ res.flag = "FLAT_COPY" /\ ~res.w.thrown) =>
       res.w.otherAfter = GenGet(IF res.w.onCopy THEN CopyResult ELSE CopySource,
                                 res.w.i, res.w.j)

\* the columns of a row are strictly increasing
StrictlySorted(row) == \A p \in 1..(Len(row) - 1) : row[p].col < row[p + 1].col

\* C25: after addMultipleRowToRow(from, to, mult) on sorted rows, every
\* column j of row to reads its old value plus mult times the old value of
\* row from, row to is still strictly sorted by column with no duplicate
\* column, and every other row is unchanged.
C25_RowMergeAddsScaledRow ==
  res.op = "addMultipleRowToRow" =>
    /\ \A j \in 0..(rim.numCols - 1) :
         ListRowGet(rim.rows[res.to + 1], j)
           = ListRowGet(res.before.rows[res.to + 1], j)
             + res.multiple * ListRowGet(res.before.rows[res.from + 1], j)
    /\ StrictlySorted(rim.rows[res.to + 1])
    /\ \A k \in 1..rim.numRows : k # res.to + 1 => rim.rows[k] = res.before.rows[k]

\* a merge that both inserted a column in the middle of row to and
\* accumulated into an existing one
C25_Witness ==
  /\ res.op = "addMultipleRowToRow"
  /\ Len(res.before.rows[res.to + 1]) = 2
  /\ Len(rim.rows[res.to + 1]) = 3
  /\ Len(res.before.rows[res.from + 1]) >= 2
  /\ rim.rows[res.to + 1][2].col \notin {res.before.rows[res.to + 1][q].col : q \in 1..2}
  /\ \E j \in 0..(rim.numCols - 1) :
       /\ ListRowGet(res.before.rows[res.to + 1], j) # 0
       /\ ListRowGet(res.before.rows[res.from + 1], j) # 0

\* C21: after collapseRowCol(from, to, mult, diag) on a matrix whose rows
\* are all present and sorted, entry (from, from) is diag, every other entry
\* of row from and of column from reads zero, and no other row stores an
\* entry at column from.
C21_CollapseLeavesDiagonal ==
  res.op = "collapseRowCol" =>
    /\ ~ub
    /\ ListRowGet(rim.rows[res.from + 1], res.from) = res.diagEntry
    /\ \A j \in 0..(rim.numCols - 1) :
         j # res.from => ListRowGet(rim.rows[res.from + 1], j) = 0
    /\ \A k \in 0..(rim.numRows - 1) :
         k # res.from =>
           /\ ListRowGet(rim.rows[k + 1], res.from) = 0
           /\ \A p \in 1..Len(rim.rows[k + 1]) : rim.rows[k + 1][p].col # res.from

====
